---- MODULE Spec2Model ----
(***************************************************************************)
(* DepGraph visualization state engine (GZGavinZhao/depgraph).             *)
(*                                                                         *)
(* The model follows src/src/interactions.ts (the handlers), the cycle     *)
(* helpers and particle system in src/src/particles.ts, the AppState type  *)
(* in src/unnamed/part_003 and the graph built by src/src/graph.ts.        *)
(*                                                                         *)
(* Conventions                                                             *)
(*  - sizes are integers in units of 0.1 (originalSize 4 is 40, an edge of *)
(*    size 0.5 is 5), so that 1.1 x, 1.2 x, 1.3 x and 1.5 x are exact;     *)
(*  - `hidden` is the value the renderer reads (main.ts:53-60 reads        *)
(*    data.hidden || false), so an attribute never set reads FALSE;        *)
(*  - a textarea is the sequence of its lines, each already trimmed; ""    *)
(*    is a blank line;                                                     *)
(*  - null is the string Null for ids, and a `present` flag for objects;   *)
(*  - `dom` is what the page shows: a hidden info panel shows nothing;     *)
(*  - `pending` is the bag of detectCycles calls suspended at their await  *)
(*    (the queried packages each one holds); they resume in any order. In  *)
(*    LayoutSpec and PageSpec it holds the runForceLayout call suspended   *)
(*    at its setTimeout and the iteration it resumes at;                   *)
(*  - time is in ms and the progress of a particle in 1/30000 of an edge,  *)
(*    so that 0.3 edges per second is 9 units per ms; dom.window holds the *)
(*    clock and the animation frames that were requested and not yet run;  *)
(*  - state.systemField names the field that particles.ts reads its        *)
(*    system from: particleSystem as written, which no code assigns, or    *)
(*    waveSystem, the field interactions.ts fills (AnimSpec);              *)
(*  - the arithmetic of the force layout is a choice among NumPlacements   *)
(*    arrangements of the nodes: only which attributes it writes and when  *)
(*    it yields is modelled;                                               *)
(*  - state.graph and state.sigma are flags (null or not): the graph that  *)
(*    state.graph points to is the variable `graph`;                       *)
(*  - `lastOp` is the last call, how it ended and what it was given.       *)
(*                                                                         *)
(* Spec is the running page after a successful initGraph. BootSpec is      *)
(* initGraph itself on any graph input, ApiSpec adds direct calls of the   *)
(* exported selectNode and focusOnNode, and LookupSpec applies the pure    *)
(* scenario helpers to drawn inputs. AnimSpec is cycle mode with the       *)
(* animation loop running and its frames interleaved with the handlers,    *)
(* LayoutSpec is runForceLayout alone and PageSpec is the layout followed  *)
(* by the handlers of Spec. SampleSpec is the repulsion sample that the    *)
(* layout draws for one node, and UpdateSpec is the update of one particle *)
(* for any particle and any time since the last frame; both keep their     *)
(* inputs and results in `lastOp`.                                         *)
(***************************************************************************)
EXTENDS Integers, Sequences, FiniteSets, Bags, TLC

VARIABLES graph, state, dom, pending, lastOp

vars == <<graph, state, dom, pending, lastOp>>

----------------------------------------------------------------------------
(* Bounds of the model *)

\* the edges of the graph input are drawn from the first PoolSize pairs of EdgePool
PoolSize == 4
\* at most this many detectCycles calls are suspended at their await
MaxPending == 1
\* a graph input lists at most this many edges (BootSpec)
MaxInputEdges == 2
\* a cycle query names at most this many packages (LookupSpec)
MaxQueryLen == 3
\* the arrangements of the nodes that a layout step chooses from (LayoutSpec)
NumPlacements == 2

----------------------------------------------------------------------------
(* Identifiers *)

Null == "null"

\* ids of the nodes of the graph input, in input order
NodeSeq == <<"A", "B", "C">>
Nodes == {NodeSeq[i] : i \in 1..Len(NodeSeq)}
\* the nodes flagged isBase in the input
BaseNodes == {"A"}
\* an id that no node of the graph has
AbsentId == "Z"
\* what the filter textarea holds when "apply" is pressed (an empty textarea
\* splits into one blank line): nothing, an unknown id, one seed, two seeds,
\* a seed next to an unknown id, two seeds around a blank line
FilterQueries == {<<"">>, <<"Z">>, <<"A">>, <<"B">>, <<"C">>, <<"A", "C">>,
                  <<"Z", "B">>, <<"C", "", "B">>}

\* what the cycles textarea holds when "detect" is pressed: nothing, and
\* the queries of the scenarios s1 and s2 of the catalog (a query that
\* matches no scenario ends like a query whose catalog could not be fetched;
\* the scenario s3, which names a package the graph does not have, is
\* validated in LookupSpec)
CycleQueries == {<<"">>, <<"A", "B">>, <<"C">>}

SeqToSet(s) == {s[i] : i \in 1..Len(s)}

----------------------------------------------------------------------------
(* COLORS, graph.ts:4-13 *)

nodeDefault == "#4a5568"
nodeHighlight == "#22d3ee"
nodePath == "#fb923c"
nodeDimmed == "#1e2830"
edgeDefault == "#2d3748"
edgeHighlight == "#22d3ee"
edgePath == "#fb923c"
edgeDimmed == "#141a20"
\* members of ColorPalette (part_003:91-92) whose values are not in src/
nodeQueried == "nodeQueried"
nodeIntermediate == "nodeIntermediate"

\* sizes, in units of 0.1
BaseNodeSize == 80
PlainNodeSize == 40
EdgeSizeDefault == 5
EdgeSizeSelected == 15
EdgeSizeDimmed == 3
EdgeSizeSubgraph == 10
EdgeSizeCycle == 15

\* originalSize * factor, the factor in tenths
Times(size, tenths) == (size * tenths) \div 10

----------------------------------------------------------------------------
(* The cycle scenario catalog (cycles-mock.json, the input of              *)
(* loadCyclesMockData): s1 has two cycles that share the nodes A and B and  *)
(* the edge A -> B and together cover every node, s2 has a queried node,   *)
(* an intermediate node and no cycle, s3 names a package that the graph    *)
(* does not have.                                                          *)

CycleEdge(f, t) == [from |-> f, to |-> t]

Catalog ==
  << [id |-> "s1", queriedPackages |-> <<"A", "B">>,
      cycles |-> << [id |-> "c1", nodes |-> <<"A", "B">>,
                     edges |-> <<CycleEdge("A", "B"), CycleEdge("B", "A")>>,
                     color |-> "#ef4444"],
                    [id |-> "c2", nodes |-> <<"A", "B", "C">>,
                     edges |-> <<CycleEdge("A", "B"), CycleEdge("B", "C"),
                                 CycleEdge("C", "A")>>,
                     color |-> "#3b82f6"] >>,
      intermediateNodes |-> << >>],
     [id |-> "s2", queriedPackages |-> <<"C">>,
      cycles |-> << >>,
      intermediateNodes |-> <<"B">>],
     [id |-> "s3", queriedPackages |-> <<"Z">>,
      cycles |-> << >>,
      intermediateNodes |-> <<"A">>] >>

\* what the fetch can deliver: the catalog, or no scenario when it fails
EmptyCatalog == << >>
Fetched == {Catalog, EmptyCatalog}

NoScenario == [id |-> Null, queriedPackages |-> << >>, cycles |-> << >>,
               intermediateNodes |-> << >>]

ScenarioIds == {Catalog[i].id : i \in 1..Len(Catalog)}
ScenarioById(id) ==
  IF id \in ScenarioIds
    THEN Catalog[CHOOSE i \in 1..Len(Catalog) : Catalog[i].id = id]
    ELSE NoScenario

----------------------------------------------------------------------------
(* GraphModel: graphology's directed graph as createGraph builds it *)

\* the pairs a graph input draws its edges from: a chain A -> B -> C, a mutual
\* dependency A <-> B, a self-loop, and the pairs that close longer cycles
EdgePool == << <<"A", "B">>, <<"B", "C">>, <<"B", "A">>, <<"A", "A">>,
               <<"C", "B">>, <<"C", "A">>, <<"A", "C">>, <<"B", "B">>, <<"C", "C">> >>
PoolEdges == {EdgePool[i] : i \in 1..(IF PoolSize < Len(EdgePool) THEN PoolSize
                                                                  ELSE Len(EdgePool))}
GraphInputs == SUBSET PoolEdges

\* Coordinates are whole numbers. The arrangements of the nodes that the
\* model tells apart are Place(1, _) .. Place(NumPlacements, _); graph.ts:79-84
\* draws the first coordinates with Math.random(), for which createGraph
\* takes the first arrangement (LayoutSpec starts from any of them).
NodeIndex(id) == CHOOSE i \in 1..Len(NodeSeq) : NodeSeq[i] = id
Place(k, id) == [x |-> NodeIndex(id) * k, y |-> (NodeIndex(id) * NodeIndex(id)) % (k + 2)]

\* graph.ts:82-91, the attributes of a new node
NewNode(id) ==
  [x |-> Place(1, id).x,
   y |-> Place(1, id).y,
   color |-> nodeDefault,
   size |-> IF id \in BaseNodes THEN BaseNodeSize ELSE PlainNodeSize,
   hidden |-> FALSE,
   originalColor |-> nodeDefault,
   originalSize |-> IF id \in BaseNodes THEN BaseNodeSize ELSE PlainNodeSize]

\* graph.ts:99-104, the attributes of a new edge
NewEdge == [color |-> edgeDefault, size |-> EdgeSizeDefault, hidden |-> FALSE,
            originalColor |-> edgeDefault]

\* graph.ts:71-110 for an input whose edges are distinct pairs of node ids
CreateGraph(es) ==
  [edges |-> es,
   node |-> [n \in Nodes |-> NewNode(n)],
   edge |-> [e \in es |-> NewEdge]]

hasNode(g, id) == id \in DOMAIN g.node
outNeighbors(g, id) == {e[2] : e \in {d \in g.edges : d[1] = id}}
inNeighbors(g, id) == {e[1] : e \in {d \in g.edges : d[2] = id}}

----------------------------------------------------------------------------
(* ui.ts: what the handlers report to the page *)

\* ui.ts:71-101
showInfoPanel(d, nodeId, deps, rdeps) ==
  [d EXCEPT !.infoPanel = [visible |-> TRUE, name |-> nodeId,
                           deps |-> deps, rdeps |-> rdeps]]

NoInfoPanel == [visible |-> FALSE, name |-> Null, deps |-> {}, rdeps |-> {}]

\* ui.ts:106-108
hideInfoPanel(d) == [d EXCEPT !.infoPanel = NoInfoPanel]

\* ui.ts:143-151: every rendered package is highlighted iff it is in nodeSet
highlightPackagesInList(d, nodeSet) ==
  [d EXCEPT !.listHighlighted = nodeSet \cap Nodes]

\* ui.ts:156-163
showModeBadge(d) == [d EXCEPT !.modeBadge = TRUE]

\* ui.ts:168-170
hideModeBadge(d) == [d EXCEPT !.modeBadge = FALSE]

----------------------------------------------------------------------------
(* SelectionController, interactions.ts:12-83 *)

\* SelectNodeStyle with the sizes scaled from the current size
SelectNodeStyle_FromCurrentSize(a, node, nodeId, deps, rdeps) ==
  IF node = nodeId
    THEN [a EXCEPT !.color = nodeHighlight, !.size = Times(a.size, 15)]
  ELSE IF node \in deps
    THEN [a EXCEPT !.color = nodePath, !.size = Times(a.size, 12)]
  ELSE IF node \in rdeps
    THEN [a EXCEPT !.color = nodeHighlight, !.size = Times(a.size, 11)]
  ELSE [a EXCEPT !.color = nodeDimmed, !.size = a.originalSize]

\* SelectNodeStyle that also moves the selected node to the origin
SelectNodeStyle_Centred(a, node, nodeId, deps, rdeps) ==
  IF node = nodeId
    THEN [a EXCEPT !.color = nodeHighlight, !.size = Times(a.originalSize, 15),
                   !.x = 0, !.y = 0]
  ELSE IF node \in deps
    THEN [a EXCEPT !.color = nodePath, !.size = Times(a.originalSize, 12)]
  ELSE IF node \in rdeps
    THEN [a EXCEPT !.color = nodeHighlight, !.size = Times(a.originalSize, 11)]
  ELSE [a EXCEPT !.color = nodeDimmed, !.size = a.originalSize]

\* SelectNodeStyle that tests the dependents before the dependencies
SelectNodeStyle_RdepsFirst(a, node, nodeId, deps, rdeps) ==
  IF node = nodeId
    THEN [a EXCEPT !.color = nodeHighlight, !.size = Times(a.originalSize, 15)]
  ELSE IF node \in rdeps
    THEN [a EXCEPT !.color = nodeHighlight, !.size = Times(a.originalSize, 11)]
  ELSE IF node \in deps
    THEN [a EXCEPT !.color = nodePath, !.size = Times(a.originalSize, 12)]
  ELSE [a EXCEPT !.color = nodeDimmed, !.size = a.originalSize]

\* interactions.ts:28-42, the styling of one node
SelectNodeStyle(a, node, nodeId, deps, rdeps) ==
  IF node = nodeId
    THEN [a EXCEPT !.color = nodeHighlight, !.size = Times(a.originalSize, 15)]
  ELSE IF node \in deps
    THEN [a EXCEPT !.color = nodePath, !.size = Times(a.originalSize, 12)]
  ELSE IF node \in rdeps
    THEN [a EXCEPT !.color = nodeHighlight, !.size = Times(a.originalSize, 11)]
  ELSE [a EXCEPT !.color = nodeDimmed, !.size = a.originalSize]

\* SelectEdgeStyle with the test of the target first
SelectEdgeStyle_TargetFirst(a, source, target, nodeId) ==
  IF source = nodeId \/ target = nodeId
    THEN [a EXCEPT !.color = IF target = nodeId THEN edgeHighlight ELSE edgePath,
                   !.size = EdgeSizeSelected]
    ELSE [a EXCEPT !.color = edgeDimmed, !.size = EdgeSizeDimmed]

\* interactions.ts:45-53, the styling of one edge
SelectEdgeStyle(a, source, target, nodeId) ==
  IF source = nodeId \/ target = nodeId
    THEN [a EXCEPT !.color = IF source = nodeId THEN edgePath ELSE edgeHighlight,
                   !.size = EdgeSizeSelected]
    ELSE [a EXCEPT !.color = edgeDimmed, !.size = EdgeSizeDimmed]

\* ConnectedSet without the dependents
ConnectedSet_NoRdeps(nodeId, deps, rdeps) == {nodeId} \cup deps

\* interactions.ts:25, the set handed to the package list
ConnectedSet(nodeId, deps, rdeps) == {nodeId} \cup deps \cup rdeps

\* interactions.ts:18-23: "ok", or "threw" when graph.outNeighbors is asked
\* for a node that the graph does not have (graphology raises
\* NotFoundGraphError)
SelectNodeResult(w, nodeId) == IF hasNode(w.graph, nodeId) THEN "ok" ELSE "threw"

\* interactions.ts:12-60; line 20 assigns state.selectedNode before line 23
\* looks the node up
selectNode(w, nodeId) ==
  IF ~hasNode(w.graph, nodeId)
    THEN [w EXCEPT !.state.selectedNode = nodeId]
    ELSE
  LET deps == outNeighbors(w.graph, nodeId)
      rdeps == inNeighbors(w.graph, nodeId)
      connected == ConnectedSet(nodeId, deps, rdeps)
  IN [graph |-> [w.graph EXCEPT
                   !.node = [n \in Nodes |->
                               SelectNodeStyle(w.graph.node[n], n, nodeId, deps, rdeps)],
                   !.edge = [e \in w.graph.edges |->
                               SelectEdgeStyle(w.graph.edge[e], e[1], e[2], nodeId)]],
      state |-> [w.state EXCEPT !.selectedNode = nodeId],
      dom |-> highlightPackagesInList(
                showInfoPanel(w.dom, nodeId, deps, rdeps), connected)]

\* interactions.ts:70-73
RestoreNodeColorSize(a) == [a EXCEPT !.color = a.originalColor, !.size = a.originalSize]

\* interactions.ts:75-78
RestoreEdgeColorSize(a) == [a EXCEPT !.color = a.originalColor, !.size = EdgeSizeDefault]

\* clearSelection without the test of isSubgraphMode
clearSelection_NoModeGuard(w) ==
  [graph |-> [w.graph EXCEPT
                !.node = [n \in Nodes |-> RestoreNodeColorSize(w.graph.node[n])],
                !.edge = [e \in w.graph.edges |->
                            RestoreEdgeColorSize(w.graph.edge[e])]],
   state |-> [w.state EXCEPT !.selectedNode = Null],
   dom |-> highlightPackagesInList(hideInfoPanel(w.dom), {})]

\* interactions.ts:65-83
clearSelection(w) ==
  IF w.state.isSubgraphMode
    THEN w
    ELSE [graph |-> [w.graph EXCEPT
                       !.node = [n \in Nodes |-> RestoreNodeColorSize(w.graph.node[n])],
                       !.edge = [e \in w.graph.edges |->
                                   RestoreEdgeColorSize(w.graph.edge[e])]],
          state |-> [w.state EXCEPT !.selectedNode = Null],
          dom |-> highlightPackagesInList(hideInfoPanel(w.dom), {})]

\* interactions.ts:88-101: line 93 returns for an id that is no node (the
\* camera is not part of this model)
focusOnNode(w, nodeId) == IF ~hasNode(w.graph, nodeId) THEN w ELSE selectNode(w, nodeId)

----------------------------------------------------------------------------
(* Restoring the baseline, interactions.ts:234-244 and 458-468 *)

\* RestoreNode without the reset of hidden
RestoreNode_KeepHidden(a) ==
  [a EXCEPT !.color = a.originalColor, !.size = a.originalSize]

\* interactions.ts:234-238, 458-462
RestoreNode(a) ==
  [a EXCEPT !.color = a.originalColor, !.size = a.originalSize, !.hidden = FALSE]

\* RestoreEdge that leaves the hidden flag of the edge as it is
RestoreEdge_KeepHidden(a) ==
  [a EXCEPT !.color = a.originalColor, !.size = EdgeSizeDefault]

\* interactions.ts:240-244, 464-468
RestoreEdge(a) ==
  [a EXCEPT !.color = a.originalColor, !.size = EdgeSizeDefault, !.hidden = FALSE]

RestoreGraph(g) ==
  [g EXCEPT !.node = [n \in Nodes |-> RestoreNode(g.node[n])],
            !.edge = [e \in g.edges |-> RestoreEdge(g.edge[e])]]

\* interactions.ts:228-249
clearSubgraphMode(w) ==
  [graph |-> RestoreGraph(w.graph),
   state |-> [w.state EXCEPT !.isSubgraphMode = FALSE, !.highlightedNodes = {}],
   dom |-> highlightPackagesInList(hideModeBadge(w.dom), {})]

----------------------------------------------------------------------------
(* CycleVisualizer helpers, particles.ts:223-304 *)

\* ScenarioMatches without the comparison of the sizes
ScenarioMatches_Subset(scenario, queried) ==
  \A pkg \in SeqToSet(queried) : pkg \in SeqToSet(scenario.queriedPackages)

\* particles.ts:237-238, the test of one scenario
ScenarioMatches(scenario, queried) ==
  LET queriedSet == SeqToSet(queried)
      scenarioSet == SeqToSet(scenario.queriedPackages)
  IN /\ Cardinality(queriedSet) = Cardinality(scenarioSet)
     /\ \A pkg \in queriedSet : pkg \in scenarioSet

\* particles.ts:227-244: the first scenario that matches, or null
findMatchingScenario(data, queried) ==
  LET hits == {i \in 1..Len(data) : ScenarioMatches(data[i], queried)}
  IN IF hits = {} THEN NoScenario
     ELSE data[CHOOSE i \in hits : \A j \in hits : i <= j]

CycleNodes(scenario) ==
  UNION {SeqToSet(scenario.cycles[i].nodes) : i \in 1..Len(scenario.cycles)}

\* particles.ts:270-276, the nodes of every cycle in the order they are visited
RECURSIVE CycleNodeList(_, _)
CycleNodeList(cycles, i) ==
  IF i > Len(cycles) THEN << >>
  ELSE cycles[i].nodes \o CycleNodeList(cycles, i + 1)

\* particles.ts:253-276, what the three loops push, repetitions included
MissingPushed(scenario, allPackages) ==
  SelectSeq(scenario.queriedPackages \o scenario.intermediateNodes
              \o CycleNodeList(scenario.cycles, 1),
            LAMBDA pkg : pkg \notin allPackages)

\* RemoveDuplicates that removes nothing
RemoveDuplicates_KeepAll(s) == s

\* particles.ts:280, [...new Set(missing)]: the first occurrence of each id
RECURSIVE RemoveDuplicates(_)
RemoveDuplicates(s) ==
  IF Len(s) = 0 THEN << >>
  ELSE LET front == RemoveDuplicates(SubSeq(s, 1, Len(s) - 1))
       IN IF s[Len(s)] \in SeqToSet(front) THEN front ELSE Append(front, s[Len(s)])

\* particles.ts:249-282
validateScenario(scenario, allPackages) ==
  LET missing == MissingPushed(scenario, allPackages)
  IN [valid |-> Len(missing) = 0, missing |-> RemoveDuplicates(missing)]

\* particles.ts:287-304
classifyNodes(scenario) ==
  [queried |-> SeqToSet(scenario.queriedPackages),
   intermediate |-> SeqToSet(scenario.intermediateNodes),
   cycleMembers |-> CycleNodes(scenario)]

----------------------------------------------------------------------------
(* The particle system, particles.ts:1-203.  A progress of 1 (a whole edge) *)
(* is ProgressOne units, so that the thirds of the stagger and 0.3 progress *)
(* per second are exact: 0.3 / s = 0.0003 / ms = 9 units per millisecond.   *)
(* Time is in milliseconds.  dom.window is the host: its clock, the frame   *)
(* callbacks it has scheduled and the id of the next one; dom.canvas is     *)
(* what the particle canvas shows.                                          *)

ProgressOne == 30000
PARTICLE_SPEED == 9
PARTICLES_PER_CYCLE == 3

\* the value of a system field that holds null (state.waveSystem,
\* state.particleSystem): animationId 0 is null
NoWaveSystem == [present |-> FALSE, particles |-> << >>, lastFrame |-> 0, animationId |-> 0]

\* particles.ts:59-67, the particles of one cycle
CycleParticles(cycle) ==
  [i \in 1..PARTICLES_PER_CYCLE |->
     [cycleId |-> cycle.id, edgeIndex |-> 0,
      progress |-> ((i - 1) * ProgressOne) \div PARTICLES_PER_CYCLE,
      color |-> cycle.color]]

RECURSIVE ParticlesFrom(_, _, _)
ParticlesFrom(cycles, visibleCycles, i) ==
  IF i > Len(cycles) THEN << >>
  ELSE (IF cycles[i].id \in visibleCycles THEN CycleParticles(cycles[i]) ELSE << >>)
         \o ParticlesFrom(cycles, visibleCycles, i + 1)

\* particles.ts:50-75; now is what performance.now() returns
initializeParticleSystem(scenario, visibleCycles, now) ==
  [present |-> TRUE,
   particles |-> ParticlesFrom(scenario.cycles, visibleCycles, 1),
   lastFrame |-> now,
   animationId |-> 0]

\* particles.ts:90 and 125, scenario.cycles.find(c => c.id === cycleId):
\* the position of the first such cycle, 0 if there is none
FindCycle(scenario, cycleId) ==
  LET has == {i \in 1..Len(scenario.cycles) : scenario.cycles[i].id = cycleId}
  IN IF has = {} THEN 0 ELSE CHOOSE i \in has : \A j \in has : i <= j

\* updateParticle whose while is an if: it wraps once per frame at most
updateParticle_WrapOnce(particle, scenario, delta) ==
  LET c == FindCycle(scenario, particle.cycleId)
      advanced == particle.progress + PARTICLE_SPEED * delta
  IN IF c = 0 \/ Len(scenario.cycles[c].edges) = 0
       THEN particle
       ELSE IF advanced >= ProgressOne
         THEN [particle EXCEPT
                 !.progress = advanced - ProgressOne,
                 !.edgeIndex = (particle.edgeIndex + 1) % Len(scenario.cycles[c].edges)]
         ELSE [particle EXCEPT !.progress = advanced]

\* particles.ts:88-101, one particle: the while loop of 97-100 takes one
\* whole edge off the progress for every edge that it moves on
updateParticle(particle, scenario, delta) ==
  LET c == FindCycle(scenario, particle.cycleId)
      advanced == particle.progress + PARTICLE_SPEED * delta
  IN IF c = 0 \/ Len(scenario.cycles[c].edges) = 0
       THEN particle
       ELSE [particle EXCEPT
               !.progress = advanced % ProgressOne,
               !.edgeIndex = (particle.edgeIndex + advanced \div ProgressOne)
                               % Len(scenario.cycles[c].edges)]

\* updateParticles that does not note the time of the frame
updateParticles_KeepLastFrame(system, scenario, now) ==
  [system EXCEPT
     !.particles = [i \in 1..Len(system.particles) |->
                      updateParticle(system.particles[i], scenario, now - system.lastFrame)]]

\* particles.ts:80-102
updateParticles(system, scenario, now) ==
  [system EXCEPT
     !.lastFrame = now,
     !.particles = [i \in 1..Len(system.particles) |->
                      updateParticle(system.particles[i], scenario, now - system.lastFrame)]]

\* particles.ts:123-174, what is drawn for one particle: nothing (the empty
\* set) when its cycle, its edge or an endpoint is missing, else a mark at
\* the interpolated position (141-142, in 1/ProgressOne of a coordinate unit)
ParticleMark(g, particle, scenario) ==
  LET c == FindCycle(scenario, particle.cycleId)
  IN IF c = 0 \/ Len(scenario.cycles[c].edges) = 0 THEN {}
     ELSE IF particle.edgeIndex + 1 > Len(scenario.cycles[c].edges) THEN {}
     ELSE LET edge == scenario.cycles[c].edges[particle.edgeIndex + 1]
          IN IF ~hasNode(g, edge.from) \/ ~hasNode(g, edge.to) THEN {}
             ELSE {[x |-> g.node[edge.from].x * ProgressOne
                            + (g.node[edge.to].x - g.node[edge.from].x) * particle.progress,
                    y |-> g.node[edge.from].y * ProgressOne
                            + (g.node[edge.to].y - g.node[edge.from].y) * particle.progress,
                    color |-> particle.color]}

\* particles.ts:107-175: the canvas is cleared and every particle drawn
renderParticles(g, system, scenario) ==
  UNION {ParticleMark(g, system.particles[i], scenario) : i \in 1..Len(system.particles)}

\* window.requestAnimationFrame: the id it returns is w.dom.window.nextId
requestAnimationFrame(w) ==
  [w EXCEPT !.dom.window.frames = @ \cup {w.dom.window.nextId},
            !.dom.window.nextId = @ + 1]

\* window.cancelAnimationFrame
cancelAnimationFrame(w, id) == [w EXCEPT !.dom.window.frames = @ \ {id}]

\* The field of AppState that particles.ts keeps the system in, and the one
\* for the canvas. particles.ts:181-201 reads state.particleSystem and
\* state.particleCanvas, which AppState (part_003:71-83) does not declare and
\* no handler writes; s.systemField names the field, so that AnimSpec can
\* run the same loop on the field that AppState declares for it
\* (state.waveSystem, with state.animationCanvas).
SystemOf(s) == s[s.systemField]
CanvasOf(s) ==
  IF s.systemField = "waveSystem" THEN s.animationCanvas ELSE s.particleCanvas

\* particles.ts:181 and 184
LoopGuard(s) ==
  /\ SystemOf(s).present
  /\ s.currentCycleScenario # Null
  /\ s.graph
  /\ s.sigma
  /\ CanvasOf(s) # Null

\* particles.ts:183-190, the frame callback
animate(w) ==
  IF ~LoopGuard(w.state)
    THEN w
    ELSE LET scenario == ScenarioById(w.state.currentCycleScenario)
             system == updateParticles(SystemOf(w.state), scenario, w.dom.window.now)
             w1 == [w EXCEPT !.dom.canvas = renderParticles(w.graph, system, scenario)]
         IN [requestAnimationFrame(w1) EXCEPT
               !.state[w.state.systemField] =
                  [system EXCEPT !.animationId = w1.dom.window.nextId]]

\* particles.ts:180-193
startParticleAnimation(w) == IF ~LoopGuard(w.state) THEN w ELSE animate(w)

\* stopParticleAnimation that cancels the frame and keeps the handle
stopParticleAnimation_KeepHandle(w) ==
  IF SystemOf(w.state).present /\ SystemOf(w.state).animationId # 0
    THEN cancelAnimationFrame(w, SystemOf(w.state).animationId)
    ELSE w

\* particles.ts:198-203
stopParticleAnimation(w) ==
  IF SystemOf(w.state).present /\ SystemOf(w.state).animationId # 0
    THEN [cancelAnimationFrame(w, SystemOf(w.state).animationId) EXCEPT
            !.state[w.state.systemField].animationId = 0]
    ELSE w

----------------------------------------------------------------------------
(* CycleVisualizer, interactions.ts:323-476 *)

\* the visible cycles of the scenario that satisfy Has, in scenario order
VisibleCyclesWith(scenario, visibleCycles, Has(_)) ==
  {i \in 1..Len(scenario.cycles) :
     scenario.cycles[i].id \in visibleCycles /\ Has(scenario.cycles[i])}

\* FirstOf that lets the last cycle win
FirstOf_Last(S) == CHOOSE i \in S : \A j \in S : i >= j

\* interactions.ts:336 and 384-391: the first cycle in scenario order wins
FirstOf(S) == CHOOSE i \in S : \A j \in S : i <= j

\* CycleNodeStyle that takes the cycle color for the original color
CycleNodeStyle_NewOriginal(a, node, scenario, visibleCycles) ==
  LET cls == classifyNodes(scenario)
      Member(cycle) == node \in SeqToSet(cycle.nodes)
      owners == VisibleCyclesWith(scenario, visibleCycles, Member)
  IN IF owners # {}
       THEN [a EXCEPT !.color = scenario.cycles[FirstOf(owners)].color,
                      !.originalColor = scenario.cycles[FirstOf(owners)].color,
                      !.size = Times(a.originalSize, 13), !.hidden = FALSE]
     ELSE IF node \in cls.queried
       THEN [a EXCEPT !.color = nodeQueried,
                      !.size = Times(a.originalSize, 12), !.hidden = FALSE]
     ELSE IF node \in cls.intermediate
       THEN [a EXCEPT !.color = nodeIntermediate,
                      !.size = Times(a.originalSize, 11), !.hidden = FALSE]
     ELSE [a EXCEPT !.color = nodeDimmed, !.hidden = TRUE]

\* interactions.ts:354-375, the styling of one node
CycleNodeStyle(a, node, scenario, visibleCycles) ==
  LET cls == classifyNodes(scenario)
      Member(cycle) == node \in SeqToSet(cycle.nodes)
      owners == VisibleCyclesWith(scenario, visibleCycles, Member)
  IN IF owners # {}
       THEN [a EXCEPT !.color = scenario.cycles[FirstOf(owners)].color,
                      !.size = Times(a.originalSize, 13), !.hidden = FALSE]
     ELSE IF node \in cls.queried
       THEN [a EXCEPT !.color = nodeQueried,
                      !.size = Times(a.originalSize, 12), !.hidden = FALSE]
     ELSE IF node \in cls.intermediate
       THEN [a EXCEPT !.color = nodeIntermediate,
                      !.size = Times(a.originalSize, 11), !.hidden = FALSE]
     ELSE [a EXCEPT !.color = nodeDimmed, !.hidden = TRUE]

\* CycleEdgeStyle that also shows the edges of the cycles toggled off
CycleEdgeStyle_AnyCycle(a, source, target, scenario, visibleCycles) ==
  LET owners == {i \in 1..Len(scenario.cycles) :
                   CycleEdge(source, target) \in SeqToSet(scenario.cycles[i].edges)}
  IN IF owners # {}
       THEN [a EXCEPT !.color = scenario.cycles[FirstOf(owners)].color,
                      !.size = EdgeSizeCycle, !.hidden = FALSE]
       ELSE [a EXCEPT !.hidden = TRUE]

\* interactions.ts:378-400, the styling of one edge
CycleEdgeStyle(a, source, target, scenario, visibleCycles) ==
  LET Lists(cycle) == CycleEdge(source, target) \in SeqToSet(cycle.edges)
      owners == VisibleCyclesWith(scenario, visibleCycles, Lists)
  IN IF owners # {}
       THEN [a EXCEPT !.color = scenario.cycles[FirstOf(owners)].color,
                      !.size = EdgeSizeCycle, !.hidden = FALSE]
       ELSE [a EXCEPT !.hidden = TRUE]

\* interactions.ts:405, the nodes that stay visible
CycleVisibleNodes(scenario, visibleCycles) ==
  LET cls == classifyNodes(scenario)
      shown == {i \in 1..Len(scenario.cycles) : scenario.cycles[i].id \in visibleCycles}
  IN UNION {SeqToSet(scenario.cycles[i].nodes) : i \in shown}
       \cup cls.queried \cup cls.intermediate

\* interactions.ts:323-407
applyCycleVisualization(w) ==
  IF w.state.currentCycleScenario = Null
    THEN w
    ELSE LET scenario == ScenarioById(w.state.currentCycleScenario)
             visible == w.state.visibleCycles
         IN [w EXCEPT
               !.graph.node = [n \in Nodes |->
                  CycleNodeStyle(w.graph.node[n], n, scenario, visible)],
               !.graph.edge = [e \in w.graph.edges |->
                  CycleEdgeStyle(w.graph.edge[e], e[1], e[2], scenario, visible)],
               !.dom = highlightPackagesInList(w.dom,
                         CycleVisibleNodes(scenario, visible))]

\* the ids of the cycles of a scenario, in order (what renderCyclesList shows)
CycleIds(scenario) == [i \in 1..Len(scenario.cycles) |-> scenario.cycles[i].id]

\* interactions.ts:412-435
toggleCycleVisibility(w, cycleId) ==
  IF w.state.currentCycleScenario = Null
    THEN w
    ELSE LET scenario == ScenarioById(w.state.currentCycleScenario)
             flipped == IF cycleId \in w.state.visibleCycles
                          THEN w.state.visibleCycles \ {cycleId}
                          ELSE w.state.visibleCycles \cup {cycleId}
             w1 == applyCycleVisualization([w EXCEPT !.state.visibleCycles = flipped])
             w2 == [w1 EXCEPT !.dom.cyclesList = CycleIds(scenario)]
         IN IF w2.state.waveSystem.present
              THEN startParticleAnimation(
                     [stopParticleAnimation(w2) EXCEPT
                        !.state.waveSystem =
                           initializeParticleSystem(scenario, flipped, w2.dom.window.now)])
              ELSE w2

\* interactions.ts:440-476
clearCyclesMode(w) ==
  LET w1 == IF w.state.waveSystem.present /\ w.state.waveSystem.animationId # 0
              THEN cancelAnimationFrame(w, w.state.waveSystem.animationId)
              ELSE w
  IN [graph |-> RestoreGraph(w1.graph),
      state |-> [w1.state EXCEPT
                   !.animationCanvas = IF @ = Null THEN Null ELSE "none",
                   !.isCyclesMode = FALSE,
                   !.currentCycleScenario = Null,
                   !.visibleCycles = {},
                   !.waveSystem = NoWaveSystem],
      dom |-> [highlightPackagesInList(hideModeBadge(w1.dom), {}) EXCEPT
                 !.cyclesList = << >>]]

----------------------------------------------------------------------------
(* SubgraphFilter, interactions.ts:154-223 *)

\* interactions.ts:162-163, 263-264: text.trim() is empty
TextEmpty(lines) == \A i \in 1..Len(lines) : lines[i] = ""

\* interactions.ts:168-170
FilterPackages(g, lines) == SelectSeq(lines, LAMBDA s : s # "" /\ hasNode(g, s))

\* ExpandedNodes without the dependents of the seeds
ExpandedNodes_OutOnly(g, packages) ==
  packages \cup UNION {outNeighbors(g, pkg) : pkg \in packages}

\* interactions.ts:178-183, the 1-hop neighbourhood of the seeds
ExpandedNodes(g, packages) ==
  packages \cup UNION {outNeighbors(g, pkg) \cup inNeighbors(g, pkg) : pkg \in packages}

\* SubgraphEdges with one endpoint in the expanded set being enough
SubgraphEdges_EitherEnd(g, expandedNodes) ==
  {e \in g.edges : e[1] \in expandedNodes \/ e[2] \in expandedNodes}

\* interactions.ts:189-194
SubgraphEdges(g, expandedNodes) ==
  {e \in g.edges : e[1] \in expandedNodes /\ e[2] \in expandedNodes}

\* interactions.ts:197-205, the styling of one node
FilterNodeStyle(a, node, expandedNodes) ==
  IF node \in expandedNodes
    THEN [a EXCEPT !.color = nodeHighlight, !.hidden = FALSE]
    ELSE [a EXCEPT !.color = nodeDimmed, !.hidden = TRUE]

\* interactions.ts:207-215, the styling of one edge
FilterEdgeStyle(a, edge, subgraphEdges) ==
  IF edge \in subgraphEdges
    THEN [a EXCEPT !.color = edgeHighlight, !.size = EdgeSizeSubgraph, !.hidden = FALSE]
    ELSE [a EXCEPT !.hidden = TRUE]

\* interactions.ts:177-222, once the seeds are known to be non-empty
ApplyFilterTo(w, packages) ==
  LET expandedNodes == ExpandedNodes(w.graph, packages)
      subgraphEdges == SubgraphEdges(w.graph, expandedNodes)
  IN [graph |-> [w.graph EXCEPT
                   !.node = [n \in Nodes |->
                               FilterNodeStyle(w.graph.node[n], n, expandedNodes)],
                   !.edge = [e \in w.graph.edges |->
                               FilterEdgeStyle(w.graph.edge[e], e, subgraphEdges)]],
      state |-> [w.state EXCEPT !.isSubgraphMode = TRUE,
                                !.highlightedNodes = expandedNodes],
      dom |-> highlightPackagesInList(showModeBadge(w.dom), expandedNodes)]

\* interactions.ts:157-160
ApplyFilterTeardown(w) == IF w.state.isCyclesMode THEN clearCyclesMode(w) ELSE w

\* how applySubgraphFilter ends: "cleared" (empty text), "noValid" (the alert
\* of line 173) or "applied"
ApplyFilterResult(w, lines) ==
  IF TextEmpty(lines) THEN "cleared"
  ELSE IF Len(FilterPackages(w.graph, lines)) = 0 THEN "noValid"
  ELSE "applied"

\* interactions.ts:154-223
applySubgraphFilter(w, lines) ==
  LET w1 == ApplyFilterTeardown(w)
      packages == FilterPackages(w1.graph, lines)
  IN IF TextEmpty(lines) THEN clearSubgraphMode(w1)
     ELSE IF Len(packages) = 0 THEN w1
     ELSE ApplyFilterTo(w1, SeqToSet(packages))

----------------------------------------------------------------------------
(* detectCycles, interactions.ts:254-318: the part before the await of the *)
(* catalog and the part after it                                           *)

\* interactions.ts:257-260
DetectCyclesTeardown(w) == IF w.state.isSubgraphMode THEN clearSubgraphMode(w) ELSE w

\* interactions.ts:269-271
QueriedPackages(lines) == SelectSeq(lines, LAMBDA s : s # "")

\* interactions.ts:255-279: "noInput" (the alerts of lines 265 and 274) or
\* "suspended" at the await
DetectCyclesCallResult(lines) ==
  IF TextEmpty(lines) \/ Len(QueriedPackages(lines)) = 0 THEN "noInput" ELSE "suspended"

\* interactions.ts:281-293: "noMatch", "invalid" or "applied"
DetectCyclesResumeResult(w, queried, cyclesData) ==
  LET scenario == findMatchingScenario(cyclesData, queried)
  IN IF scenario.id = Null THEN "noMatch"
     ELSE IF ~validateScenario(scenario, SeqToSet(w.state.allPackages)).valid
       THEN "invalid"
     ELSE "applied"

\* interactions.ts:295-317
EnterCyclesMode(w, scenario) ==
  LET visible == SeqToSet(CycleIds(scenario))
      w1 == applyCycleVisualization(
              [w EXCEPT !.state.isCyclesMode = TRUE,
                        !.state.currentCycleScenario = scenario.id,
                        !.state.visibleCycles = visible])
      w2 == [w1 EXCEPT !.dom.cyclesList = CycleIds(scenario),
                       !.dom.modeBadge = TRUE]
  IN startParticleAnimation(
       [w2 EXCEPT !.state.animationCanvas = "block",
                  !.state.waveSystem =
                     initializeParticleSystem(scenario, visible, w2.dom.window.now)])

\* interactions.ts:279-318, the continuation of the await
detectCyclesResume(w, queried, cyclesData) ==
  IF DetectCyclesResumeResult(w, queried, cyclesData) = "applied"
    THEN EnterCyclesMode(w, findMatchingScenario(cyclesData, queried))
    ELSE w

----------------------------------------------------------------------------
(* The session: main.ts:10-17 with the fields of AppState (part_003:71-83), *)
(* after initGraph has built the graph and installed the handlers.          *)
(* particleSystem and particleCanvas are the two fields that particles.ts   *)
(* reads (181-201) and AppState does not declare: no handler stores a value *)
(* in them.                                                                 *)

InitState ==
  [graph |-> TRUE,
   sigma |-> TRUE,
   allPackages |-> NodeSeq,
   highlightedNodes |-> {},
   selectedNode |-> Null,
   isSubgraphMode |-> FALSE,
   isCyclesMode |-> FALSE,
   currentCycleScenario |-> Null,
   visibleCycles |-> {},
   waveSystem |-> NoWaveSystem,
   animationCanvas |-> Null,
   particleSystem |-> NoWaveSystem,
   particleCanvas |-> Null,
   systemField |-> "particleSystem"]

InitDom ==
  [handlers |-> TRUE,
   infoPanel |-> NoInfoPanel,
   listHighlighted |-> {},
   modeBadge |-> FALSE,
   cyclesList |-> << >>,
   canvas |-> {},
   window |-> [now |-> 0, frames |-> {}, nextId |-> 1]]

Op(op, result, arg) == [op |-> op, result |-> result, arg |-> arg]

World == [graph |-> graph, state |-> state, dom |-> dom]

Becomes(w) == /\ graph' = w.graph
              /\ state' = w.state
              /\ dom' = w.dom

Init ==
  /\ \E es \in GraphInputs : graph = CreateGraph(es)
  /\ state = InitState
  /\ dom = InitDom
  /\ pending = EmptyBag
  /\ lastOp = Op("init", "ok", {})

\* interactions.ts:492-494, and the package list, search and dependency tags
\* through focusOnNode (interactions.ts:88-95)
ClickNode ==
  \E n \in Nodes :
    /\ Becomes(selectNode(World, n))
    /\ lastOp' = Op("selectNode", "ok", {n})
    /\ UNCHANGED pending

\* interactions.ts:497-501
ClickStage ==
  /\ IF ~state.isSubgraphMode
       THEN /\ Becomes(clearSelection(World))
            /\ lastOp' = Op("clearSelection", "ok", {})
       ELSE /\ UNCHANGED <<graph, state, dom>>
            /\ lastOp' = Op("clickStage", "suppressed", {})
  /\ UNCHANGED pending

\* interactions.ts:528-533
ZoomReset ==
  /\ Becomes(clearSubgraphMode(clearSelection(World)))
  /\ lastOp' = Op("zoomReset", "ok", {})
  /\ UNCHANGED pending

\* interactions.ts:545
BtnApply ==
  \E lines \in FilterQueries :
    /\ Becomes(applySubgraphFilter(World, lines))
    /\ lastOp' = Op("applyFilter", ApplyFilterResult(World, lines),
                    SeqToSet(FilterPackages(graph, lines)))
    /\ UNCHANGED pending

\* interactions.ts:546-549
BtnClear ==
  /\ Becomes(clearSubgraphMode(World))
  /\ lastOp' = Op("clearSubgraphMode", "ok", {})
  /\ UNCHANGED pending

\* interactions.ts:552, up to the await of line 279
BtnDetectCycles ==
  \E lines \in CycleQueries :
    LET result == DetectCyclesCallResult(lines)
    IN /\ result = "suspended" => BagCardinality(pending) < MaxPending
       /\ Becomes(DetectCyclesTeardown(World))
       /\ pending' = IF result = "suspended"
                       THEN pending (+) SetToBag({QueriedPackages(lines)})
                       ELSE pending
       /\ lastOp' = Op("detectCycles", result, {})

\* interactions.ts:279-318: a suspended detectCycles gets its catalog
DetectCyclesResume ==
  \E queried \in BagToSet(pending) : \E cyclesData \in Fetched :
    /\ Becomes(detectCyclesResume(World, queried, cyclesData))
    /\ pending' = pending (-) SetToBag({queried})
    /\ lastOp' = Op("detectCycles",
                    DetectCyclesResumeResult(World, queried, cyclesData), {})

\* interactions.ts:553-556
BtnClearCycles ==
  /\ Becomes(clearCyclesMode(World))
  /\ lastOp' = Op("clearCyclesMode", "ok", {})
  /\ UNCHANGED pending

\* interactions.ts:304-306, a click in the rendered list of cycles
ToggleCycle ==
  \E cycleId \in SeqToSet(dom.cyclesList) :
    /\ Becomes(toggleCycleVisibility(World, cycleId))
    /\ lastOp' = Op("toggleCycle", "ok", {cycleId})
    /\ UNCHANGED pending

Next ==
  \/ ClickNode
  \/ ClickStage
  \/ ZoomReset
  \/ BtnApply
  \/ BtnClear
  \/ BtnDetectCycles
  \/ DetectCyclesResume
  \/ BtnClearCycles
  \/ ToggleCycle

Spec == Init /\ [][Next]_vars

----------------------------------------------------------------------------
(* initGraph on any graph input: graph.ts:71-110 builds the graph with     *)
(* graphology's default (simple, mixed) Graph, main.ts:22-79 installs it   *)

\* the ids in the order that Array.prototype.sort leaves them (main.ts:30)
IdOrder == <<"A", "B", "C", "Z">>

\* the node lists of a graph input: the nodes of Spec, the same unsorted, one
\* node short, and one id listed twice
NodeInputs == {<<"A", "B", "C">>, <<"C", "A", "B">>, <<"A", "B">>, <<"A", "B", "A">>}
\* the pairs that an input edge list draws from, two of them with an unknown id
InputPairs == {<<"A", "B">>, <<"B", "C">>, <<"B", "A">>,
               <<"A", AbsentId>>, <<AbsentId, "A">>}
EdgeInputs == UNION {[1..n -> InputPairs] : n \in 0..MaxInputEdges}
GraphDataInputs == [nodes : NodeInputs, edges : EdgeInputs]

NoError == "none"

\* graph.ts:72, new Graph()
NoGraph == [edges |-> {}, node |-> [n \in {} |-> NewNode(n)], edge |-> [e \in {} |-> NewEdge]]

\* addNode that keeps the node it already has
addNode_Merge(g, id) ==
  [error |-> NoError,
   graph |-> [g EXCEPT !.node = [n \in DOMAIN g.node \cup {id} |->
                                   IF n \in DOMAIN g.node THEN g.node[n] ELSE NewNode(n)]]]

\* graph.ts:82-91, graph.addNode: graphology raises UsageGraphError for an id
\* that the graph already has
addNode(g, id) ==
  IF hasNode(g, id)
    THEN [error |-> "UsageGraphError", graph |-> g]
    ELSE [error |-> NoError,
          graph |-> [g EXCEPT !.node = [n \in DOMAIN g.node \cup {id} |->
                                          IF n = id THEN NewNode(id) ELSE g.node[n]]]]

\* the keys that graphology gives to edges added without a key
EdgeKeys(g) == {<<"geid", k>> : k \in 0..(Cardinality(g.edges) - 1)}

\* graph.ts:98, graph.hasEdge with one argument: is it the key of an edge
hasEdge(g, key) == key \in EdgeKeys(g)

\* graph.ts:99-104, graph.addEdge: in a simple graph graphology raises
\* UsageGraphError for a pair that is already linked, and NotFoundGraphError
\* for an endpoint that is no node
addEdge(g, source, target) ==
  IF ~hasNode(g, source) \/ ~hasNode(g, target)
    THEN [error |-> "NotFoundGraphError", graph |-> g]
  ELSE IF <<source, target>> \in g.edges
    THEN [error |-> "UsageGraphError", graph |-> g]
  ELSE [error |-> NoError,
        graph |-> [g EXCEPT !.edges = @ \cup {<<source, target>>},
                            !.edge = [e \in g.edges \cup {<<source, target>>} |->
                                        IF e \in g.edges THEN g.edge[e] ELSE NewEdge]]]

\* AdmitsEdge that looks at the source only
AdmitsEdge_SourceOnly(g, edge) == hasNode(g, edge[1])

\* graph.ts:96
AdmitsEdge(g, edge) == hasNode(g, edge[1]) /\ hasNode(g, edge[2])

\* graph.ts:78-92, from the i-th node on
RECURSIVE AddNodes(_, _, _)
AddNodes(g, nodes, i) ==
  IF i > Len(nodes) THEN [error |-> NoError, graph |-> g]
  ELSE LET r == addNode(g, nodes[i])
       IN IF r.error # NoError THEN r ELSE AddNodes(r.graph, nodes, i + 1)

\* graph.ts:95-107, from the i-th edge on; edgeId is e0, e1, ...
RECURSIVE AddEdges(_, _, _)
AddEdges(g, edges, i) ==
  IF i > Len(edges) THEN [error |-> NoError, graph |-> g]
  ELSE IF AdmitsEdge(g, edges[i]) /\ ~hasEdge(g, <<"e", i - 1>>)
    THEN LET r == addEdge(g, edges[i][1], edges[i][2])
         IN IF r.error # NoError THEN r ELSE AddEdges(r.graph, edges, i + 1)
  ELSE AddEdges(g, edges, i + 1)

\* graph.ts:71-110: the graph, or the error that stopped the construction
createGraph(data) ==
  LET r == AddNodes(NoGraph, data.nodes, 1)
  IN IF r.error # NoError THEN r ELSE AddEdges(r.graph, data.edges, 1)

RECURSIVE Repeat(_, _)
Repeat(id, n) == IF n = 0 THEN << >> ELSE <<id>> \o Repeat(id, n - 1)

RECURSIVE SortedFrom(_, _)
SortedFrom(ids, k) ==
  IF k > Len(IdOrder) THEN << >>
  ELSE Repeat(IdOrder[k], Cardinality({i \in 1..Len(ids) : ids[i] = IdOrder[k]}))
         \o SortedFrom(ids, k + 1)

\* main.ts:30, data.nodes.map(n => n.id).sort()
SortedIds(nodes) == SortedFrom(nodes, 1)

\* main.ts:10-17, the state before initGraph
BootState == [InitState EXCEPT !.graph = FALSE, !.sigma = FALSE, !.allPackages = << >>]

BootDom == [InitDom EXCEPT !.handlers = FALSE]

\* how initGraph ends: the error of createGraph, and whether the catch of
\* main.ts:74-75 took it
InitGraphResult(data) ==
  [error |-> createGraph(data).error, caught |-> createGraph(data).error # NoError]

\* main.ts:22-79: line 33 assigns state.graph only when createGraph returns,
\* lines 42 and 68 are reached only after that
initGraph(w, data) ==
  LET w1 == [w EXCEPT !.state.allPackages = SortedIds(data.nodes)]
      built == createGraph(data)
  IN IF built.error # NoError
       THEN w1
       ELSE [graph |-> built.graph,
             state |-> [w1.state EXCEPT !.graph = TRUE, !.sigma = TRUE],
             dom |-> [w1.dom EXCEPT !.handlers = TRUE]]

\* main.ts:29, loadGraphData has delivered the graph input
BootInit ==
  /\ graph = NoGraph
  /\ state = BootState
  /\ dom = BootDom
  /\ pending = EmptyBag
  /\ \E data \in GraphDataInputs : lastOp = Op("loadGraphData", "ok", data)

\* main.ts:30-78
InitGraph ==
  /\ lastOp.op = "loadGraphData"
  /\ Becomes(initGraph(World, lastOp.arg))
  /\ lastOp' = Op("initGraph", InitGraphResult(lastOp.arg), lastOp.arg)
  /\ UNCHANGED pending

BootNext == InitGraph

BootSpec == BootInit /\ [][BootNext]_vars

----------------------------------------------------------------------------
(* The exported selectNode and focusOnNode called with any id *)

\* interactions.ts:88-101, as the package list, the search results and the
\* dependency tags call it
FocusOnNode ==
  \E id \in Nodes \cup {AbsentId} :
    /\ Becomes(focusOnNode(World, id))
    /\ lastOp' = Op("focusOnNode", IF hasNode(graph, id) THEN "ok" ELSE "ignored", {id})
    /\ UNCHANGED pending

\* interactions.ts:12-60, called without the test of focusOnNode
SelectNodeCall ==
  \E id \in Nodes \cup {AbsentId} :
    /\ Becomes(selectNode(World, id))
    /\ lastOp' = Op("selectNode", SelectNodeResult(World, id), {id})
    /\ UNCHANGED pending

ApiNext ==
  \/ ClickStage
  \/ FocusOnNode
  \/ SelectNodeCall

ApiSpec == Init /\ [][ApiNext]_vars

----------------------------------------------------------------------------
(* The scenario helpers of particles.ts:223-282 on drawn inputs *)

\* the queries handed to findMatchingScenario: detectCycles passes on only
\* non-empty lists (interactions.ts:273-276)
LookupQueries == UNION {[1..n -> Nodes] : n \in 1..MaxQueryLen}

\* a scenario that has drifted from the graph: it names Z three times and Y once
StaleScenario ==
  [id |-> "s4", queriedPackages |-> <<AbsentId, "A">>,
   cycles |-> << [id |-> "c3", nodes |-> <<"A", AbsentId, "Y">>,
                  edges |-> <<CycleEdge("A", AbsentId), CycleEdge(AbsentId, "A")>>,
                  color |-> "#10b981"] >>,
   intermediateNodes |-> <<AbsentId, "C">>]

ValidationScenarios == SeqToSet(Catalog) \cup {StaleScenario}

LookupInputs ==
  {Op("lookupInput", "ok", [queried |-> q, data |-> d]) :
     q \in LookupQueries, d \in Fetched}
  \cup {Op("validateInput", "ok", [scenario |-> sc, allPackages |-> pk]) :
          sc \in ValidationScenarios, pk \in SUBSET Nodes}

LookupInit ==
  /\ graph = CreateGraph({})
  /\ state = InitState
  /\ dom = InitDom
  /\ pending = EmptyBag
  /\ lastOp \in LookupInputs

\* interactions.ts:282
FindScenario ==
  /\ lastOp.op = "lookupInput"
  /\ lastOp' = Op("findMatchingScenario",
                  findMatchingScenario(lastOp.arg.data, lastOp.arg.queried).id,
                  lastOp.arg)
  /\ UNCHANGED <<graph, state, dom, pending>>

\* interactions.ts:289
ValidateScenario ==
  /\ lastOp.op = "validateInput"
  /\ lastOp' = Op("validateScenario",
                  validateScenario(lastOp.arg.scenario, lastOp.arg.allPackages),
                  lastOp.arg)
  /\ UNCHANGED <<graph, state, dom, pending>>

LookupNext ==
  \/ FindScenario
  \/ ValidateScenario

LookupSpec == LookupInit /\ [][LookupNext]_vars

----------------------------------------------------------------------------
(* Properties *)

NodeAtBaseline(n) ==
  /\ graph.node[n].color = graph.node[n].originalColor
  /\ graph.node[n].size = graph.node[n].originalSize
  /\ graph.node[n].hidden = FALSE

EdgeAtBaseline(e) ==
  /\ graph.edge[e].color = graph.edge[e].originalColor
  /\ graph.edge[e].size = EdgeSizeDefault
  /\ graph.edge[e].hidden = FALSE

AllAtBaseline ==
  /\ \A n \in Nodes : NodeAtBaseline(n)
  /\ \A e \in graph.edges : EdgeAtBaseline(e)

ColorAndSizeAtBaseline ==
  /\ \A n \in Nodes : /\ graph.node[n].color = graph.node[n].originalColor
                      /\ graph.node[n].size = graph.node[n].originalSize
  /\ \A e \in graph.edges : /\ graph.edge[e].color = graph.edge[e].originalColor
                            /\ graph.edge[e].size = EdgeSizeDefault

SomethingHidden ==
  \/ \E n \in Nodes : graph.node[n].hidden
  \/ \E e \in graph.edges : graph.edge[e].hidden

ChainABC == {<<"A", "B">>, <<"B", "C">>}

C2_ExactlyOneMode ==
  /\ ~(state.selectedNode # Null /\ state.isSubgraphMode)
  /\ ~(state.selectedNode # Null /\ state.isCyclesMode)
  /\ ~(state.isSubgraphMode /\ state.isCyclesMode)

\* C3: isSubgraphMode and isCyclesMode are never both true, whatever runs
\* while detectCycles is suspended at its await.
C3_ModeFlagsExclusive == ~(state.isSubgraphMode /\ state.isCyclesMode)

\* the world a mode is entered from when nothing else is active
IdleWorld == [graph |-> CreateGraph(graph.edges), state |-> InitState, dom |-> InitDom]

\* C4: after applyFilter or detectCycles succeeds, the previous mode is torn
\* down (no selected node, the other mode's flag off) and every node and edge
\* attribute is what the new mode produces when entered from the idle
\* baseline.
C4_RestoreThenApply ==
  /\ (lastOp.op = "applyFilter" /\ lastOp.result = "applied") =>
       /\ state.selectedNode = Null
       /\ ~state.isCyclesMode
       /\ graph = ApplyFilterTo(IdleWorld, lastOp.arg).graph
  /\ (lastOp.op = "detectCycles" /\ lastOp.result = "applied") =>
       /\ state.selectedNode = Null
       /\ ~state.isSubgraphMode
       /\ graph = EnterCyclesMode(IdleWorld,
                                  ScenarioById(state.currentCycleScenario)).graph

\* C5: an applyFilter that fails because no typed id is in the graph leaves
\* the session state and every node and edge attribute as they were.
C5_FailedFilterChangesNothing ==
  [][(lastOp'.op = "applyFilter" /\ lastOp'.result = "noValid")
       => (graph' = graph /\ state' = state)]_vars

\* C6: a detectCycles that fails (no input, no matching scenario, validation
\* failure) leaves the session state and every node and edge attribute as
\* they were.
C6_FailedDetectChangesNothing ==
  [][(lastOp'.op = "detectCycles"
        /\ lastOp'.result \in {"noInput", "noMatch", "invalid"})
       => (graph' = graph /\ state' = state)]_vars

\* the seeds and everything one hop from a seed, in either direction
OneHopOf(seeds) ==
  seeds \cup {n \in Nodes : \E s \in seeds : <<s, n>> \in graph.edges
                                              \/ <<n, s>> \in graph.edges}

FilterApplied == lastOp.op = "applyFilter" /\ lastOp.result = "applied"

\* C7: after applyFilter succeeds, highlightedNodes is the seeds present in
\* the graph with their out- and in-neighbors; its members are visible with
\* the highlight color and every other node is hidden. On A -> B -> C,
\* applyFilter([A]) gives {A, B} and hides C.
C7_FilterExpandedSet ==
  FilterApplied =>
    /\ lastOp.arg # {}
    /\ state.highlightedNodes = OneHopOf(lastOp.arg)
    /\ dom.listHighlighted = OneHopOf(lastOp.arg)
    /\ \A n \in Nodes :
         IF n \in state.highlightedNodes
           THEN ~graph.node[n].hidden /\ graph.node[n].color = nodeHighlight
           ELSE graph.node[n].hidden
    /\ (graph.edges = ChainABC /\ lastOp.arg = {"A"}) =>
         /\ state.highlightedNodes = {"A", "B"}
         /\ graph.node["C"].hidden

\* applyFilter([A]) has succeeded on A -> B -> C
C7_Witness ==
  /\ FilterApplied
  /\ graph.edges = ChainABC
  /\ lastOp.arg = {"A"}

\* C8: after applyFilter succeeds, an edge is visible iff both its endpoints
\* are in the expanded set; a visible edge has the highlight color and the
\* thickened size, every other edge is hidden.
C8_FilterInducedEdges ==
  FilterApplied =>
    \A e \in graph.edges :
      /\ ~graph.edge[e].hidden <=> (e[1] \in state.highlightedNodes
                                     /\ e[2] \in state.highlightedNodes)
      /\ ~graph.edge[e].hidden =>
           (graph.edge[e].color = edgeHighlight /\ graph.edge[e].size = EdgeSizeSubgraph)

\* a filter has been applied that shows one edge and hides another, the
\* hidden one with an endpoint in the expanded set
C8_Witness ==
  /\ FilterApplied
  /\ \E e \in graph.edges : ~graph.edge[e].hidden
  /\ \E e \in graph.edges :
       /\ graph.edge[e].hidden
       /\ (e[1] \in state.highlightedNodes \/ e[2] \in state.highlightedNodes)

DepsOf(id) == {n \in Nodes : <<id, n>> \in graph.edges}
RdepsOf(id) == {n \in Nodes : <<n, id>> \in graph.edges}

NodeSelected == lastOp.op = "selectNode"

\* C9: selectNode(id) reports the connected set {id} with the out-neighbors
\* and the in-neighbors of id, nothing missing and nothing extra. On
\* A -> B -> C, selectNode(B) reports deps {C}, rdeps {A}, connected {A, B, C}.
C9_SelectConnectedSet ==
  NodeSelected =>
    LET id == state.selectedNode
    IN /\ lastOp.arg = {id}
       /\ dom.listHighlighted = {id} \cup DepsOf(id) \cup RdepsOf(id)
       /\ dom.infoPanel.visible /\ dom.infoPanel.name = id
       /\ dom.infoPanel.deps = DepsOf(id)
       /\ dom.infoPanel.rdeps = RdepsOf(id)
       /\ (graph.edges = ChainABC /\ id = "B") =>
            /\ dom.infoPanel.deps = {"C"}
            /\ dom.infoPanel.rdeps = {"A"}
            /\ dom.listHighlighted = {"A", "B", "C"}

\* selectNode(B) has run on A -> B -> C
C9_Witness ==
  /\ NodeSelected
  /\ graph.edges = ChainABC
  /\ state.selectedNode = "B"

NodeStyled(n, color, tenths) ==
  /\ graph.node[n].color = color
  /\ graph.node[n].size = Times(graph.node[n].originalSize, tenths)

\* C10 as stated: after selectNode(id), id is highlighted at 1.5 x, every
\* member of deps has the path color at 1.2 x, every member of rdeps has the
\* highlight color at 1.1 x, every other node is dimmed at originalSize.
C10_SelectStylingAsStated ==
  NodeSelected =>
    LET id == state.selectedNode
    IN /\ NodeStyled(id, nodeHighlight, 15)
       /\ \A n \in DepsOf(id) : NodeStyled(n, nodePath, 12)
       /\ \A n \in RdepsOf(id) : NodeStyled(n, nodeHighlight, 11)
       /\ \A n \in Nodes \ ({id} \cup DepsOf(id) \cup RdepsOf(id)) :
            NodeStyled(n, nodeDimmed, 10)

\* C10 amended: after selectNode(id), id is highlighted at 1.5 x; every
\* other member of deps has the path color at 1.2 x; every member of rdeps
\* that is neither id nor in deps has the highlight color at 1.1 x; every
\* other node is dimmed at originalSize. The sizes are multiples of
\* originalSize, however many selections came before.
C10_SelectStyling ==
  NodeSelected =>
    LET id == state.selectedNode
    IN /\ NodeStyled(id, nodeHighlight, 15)
       /\ \A n \in DepsOf(id) \ {id} : NodeStyled(n, nodePath, 12)
       /\ \A n \in RdepsOf(id) \ ({id} \cup DepsOf(id)) :
            NodeStyled(n, nodeHighlight, 11)
       /\ \A n \in Nodes \ ({id} \cup DepsOf(id) \cup RdepsOf(id)) :
            NodeStyled(n, nodeDimmed, 10)

\* a node has been selected that has a dependency which also depends on it,
\* a dependent that is no dependency, and an unrelated node
C10_Witness ==
  /\ NodeSelected
  /\ \E n \in Nodes \ {state.selectedNode} :
       n \in DepsOf(state.selectedNode) \cap RdepsOf(state.selectedNode)
  /\ \E n \in Nodes \ {state.selectedNode} :
       n \in DepsOf(state.selectedNode) \ RdepsOf(state.selectedNode)

EdgeStyled(e, color, size) ==
  /\ graph.edge[e].color = color
  /\ graph.edge[e].size = size

\* C11: after selectNode(id), every edge whose source is id has the path
\* color, every edge whose target is id and whose source is not id has the
\* highlight color, both at the increased size; every edge not incident to id
\* has the dimmed color at the thinned size.
C11_SelectEdgeStyling ==
  NodeSelected =>
    LET id == state.selectedNode
    IN \A e \in graph.edges :
         /\ e[1] = id => EdgeStyled(e, edgePath, EdgeSizeSelected)
         /\ (e[2] = id /\ e[1] # id) => EdgeStyled(e, edgeHighlight, EdgeSizeSelected)
         /\ (e[1] # id /\ e[2] # id) => EdgeStyled(e, edgeDimmed, EdgeSizeDimmed)

\* a node has been selected that has a self-loop, an outgoing edge, an
\* incoming edge, and next to an edge that does not touch it
C11_Witness ==
  /\ NodeSelected
  /\ state.selectedNode = "A"
  /\ graph.edges = {<<"A", "A">>, <<"A", "B">>, <<"B", "A">>, <<"B", "C">>}

\* C12: selectNode(id) with an id that the graph does not have raises no
\* error and leaves selectedNode and every node and edge attribute as they
\* were.
C12_SelectAbsentIsNoOp ==
  [][(lastOp'.op = "selectNode" /\ lastOp'.arg = {AbsentId})
       => (lastOp'.result = "ok" /\ state' = state /\ graph' = graph)]_vars

\* C13: clearSelection called while subgraph mode is on changes neither
\* selectedNode nor any node or edge color, size or hidden (nor the page).
C13_ClearSelectionSuppressed ==
  state.isSubgraphMode => clearSelection(World) = World

\* a background click has come while a filter was on and a node was selected
\* under it: the selection styling is still there
C13_Witness ==
  /\ state.isSubgraphMode
  /\ lastOp.op = "clickStage"
  /\ state.selectedNode # Null
  /\ \E n \in Nodes : graph.node[n].size # graph.node[n].originalSize

\* initGraph has run on the graph input lastOp.arg
GraphBuilt == lastOp.op = "initGraph"

InputIds(data) == SeqToSet(data.nodes)

NodesUnique(data) == Cardinality(InputIds(data)) = Len(data.nodes)

\* the input edges whose source and target are both ids of input nodes
ValidEdgeIndexes(data) ==
  {i \in 1..Len(data.edges) :
     data.edges[i][1] \in InputIds(data) /\ data.edges[i][2] \in InputIds(data)}

ValidPairs(data) == {data.edges[i] : i \in ValidEdgeIndexes(data)}

\* some ordered pair of existing nodes is listed twice
PairRepeated(data) ==
  \E i, j \in ValidEdgeIndexes(data) : i # j /\ data.edges[i] = data.edges[j]

\* C14: building the graph from an input in which the same ordered pair of
\* existing nodes occurs twice raises no error and yields one edge for that
\* pair (and one for every other admissible pair).
C14_EdgeInsertionIdempotent ==
  (GraphBuilt /\ NodesUnique(lastOp.arg) /\ PairRepeated(lastOp.arg)) =>
    /\ lastOp.result.error = NoError
    /\ state.graph
    /\ graph.edges = ValidPairs(lastOp.arg)

\* C15: at construction an input edge is admitted iff both its source and
\* its target are ids of existing nodes: a graph that gets built has exactly
\* the admissible pairs as edges, every input node with its construction
\* attributes, and an edge naming an unknown id is never the cause of an
\* error.
C15_EdgeAdmission ==
  GraphBuilt =>
    /\ lastOp.result.error = NoError =>
         /\ graph.edges = ValidPairs(lastOp.arg)
         /\ DOMAIN graph.node = InputIds(lastOp.arg)
         /\ \A n \in DOMAIN graph.node : graph.node[n] = NewNode(n)
         /\ \A e \in graph.edges : graph.edge[e] = NewEdge
    /\ lastOp.result.error # NoError =>
         /\ lastOp.result.error # "NotFoundGraphError"
         /\ ~NodesUnique(lastOp.arg) \/ PairRepeated(lastOp.arg)

\* a graph has been built from an input that lists an edge to an unknown id
\* before an admissible edge
C15_Witness ==
  /\ GraphBuilt
  /\ state.graph
  /\ lastOp.arg.nodes = NodeSeq
  /\ lastOp.arg.edges = << <<"A", AbsentId>>, <<"A", "B">> >>
  /\ graph.edges = {<<"A", "B">>}

\* C16: adding a node whose id already exists fails with an error at that
\* call; initGraph catches it, and no graph, renderer or handler is
\* installed: state.graph and state.sigma stay null.
C16_DuplicateNodeFails ==
  (GraphBuilt /\ ~NodesUnique(lastOp.arg)) =>
    /\ lastOp.result.error = "UsageGraphError"
    /\ lastOp.result.caught
    /\ ~state.graph
    /\ ~state.sigma
    /\ ~dom.handlers
    /\ graph = NoGraph

\* initGraph has run on an input that lists the id A twice, with edges
C16_Witness ==
  /\ GraphBuilt
  /\ lastOp.arg.nodes = <<"A", "B", "A">>
  /\ Len(lastOp.arg.edges) > 0

ScenarioFound == lastOp.op = "findMatchingScenario"

\* the orderings of a list of ids
Reorderings(q) == {[i \in 1..Len(q) |-> q[f[i]]] : f \in Permutations(1..Len(q))}

\* the scenarios of a catalog whose queriedPackages are, as a set, the set q
SameSetScenarios(data, q) ==
  {i \in 1..Len(data) : SeqToSet(data[i].queriedPackages) = SeqToSet(q)}

\* C17: the lookup resolves to a scenario iff some scenario's queriedPackages
\* equal, as a set, the set of queried ids (a strict subset or superset does
\* not match), the scenario it resolves to is such a scenario, and every
\* ordering of the queried ids resolves to the same one.
C17_ScenarioLookupBySet ==
  ScenarioFound =>
    LET q == lastOp.arg.queried
        data == lastOp.arg.data
    IN /\ lastOp.result # Null <=> SameSetScenarios(data, q) # {}
       /\ lastOp.result # Null =>
            \E i \in SameSetScenarios(data, q) : data[i].id = lastOp.result
       /\ \A p \in Reorderings(q) : findMatchingScenario(data, p).id = lastOp.result

\* the query (B, A) has resolved to the scenario whose packages are (A, B)
C17_Witness ==
  /\ ScenarioFound
  /\ lastOp.arg.queried = <<"B", "A">>
  /\ lastOp.arg.data = Catalog
  /\ lastOp.result = "s1"

ScenarioValidated == lastOp.op = "validateScenario"

\* every id that a scenario refers to
Referenced(scenario) ==
  SeqToSet(scenario.queriedPackages) \cup SeqToSet(scenario.intermediateNodes)
    \cup UNION {SeqToSet(scenario.cycles[i].nodes) : i \in 1..Len(scenario.cycles)}

CycleDetected == lastOp.op = "detectCycles" /\ lastOp.result = "applied"

CycleToggled == lastOp.op = "toggleCycle"

\* the scenario on display
Shown == ScenarioById(state.currentCycleScenario)

\* the position of the first visible cycle that has node n, 0 if there is none
FirstVisibleCycleWithNode(n) ==
  LET has == {i \in 1..Len(Shown.cycles) :
                /\ Shown.cycles[i].id \in state.visibleCycles
                /\ \E k \in 1..Len(Shown.cycles[i].nodes) : Shown.cycles[i].nodes[k] = n}
  IN IF has = {} THEN 0 ELSE CHOOSE i \in has : \A j \in has : i <= j

\* the position of the first visible cycle that lists the edge e, 0 if none
FirstVisibleCycleWithEdge(e) ==
  LET has == {i \in 1..Len(Shown.cycles) :
                /\ Shown.cycles[i].id \in state.visibleCycles
                /\ \E k \in 1..Len(Shown.cycles[i].edges) :
                     /\ Shown.cycles[i].edges[k].from = e[1]
                     /\ Shown.cycles[i].edges[k].to = e[2]}
  IN IF has = {} THEN 0 ELSE CHOOSE i \in has : \A j \in has : i <= j

\* C19: after a successful detectCycles (visibleCycles = every cycle id of
\* the scenario) and after every toggleCycle, each node follows the first
\* rule that applies: member of a visible cycle -> the color of the first
\* such cycle in scenario order, 1.3 x originalSize, visible; else queried ->
\* queried color, 1.2 x, visible; else intermediate -> intermediate color,
\* 1.1 x, visible; else hidden and dimmed.
C19_CycleNodeClassification ==
  /\ CycleDetected =>
       state.visibleCycles = {Shown.cycles[i].id : i \in 1..Len(Shown.cycles)}
  /\ (CycleDetected \/ CycleToggled) =>
       /\ state.currentCycleScenario # Null
       /\ \A n \in Nodes :
            IF FirstVisibleCycleWithNode(n) # 0
              THEN /\ NodeStyled(n, Shown.cycles[FirstVisibleCycleWithNode(n)].color, 13)
                   /\ ~graph.node[n].hidden
            ELSE IF n \in SeqToSet(Shown.queriedPackages)
              THEN NodeStyled(n, nodeQueried, 12) /\ ~graph.node[n].hidden
            ELSE IF n \in SeqToSet(Shown.intermediateNodes)
              THEN NodeStyled(n, nodeIntermediate, 11) /\ ~graph.node[n].hidden
            ELSE graph.node[n].hidden /\ graph.node[n].color = nodeDimmed

\* the scenario with the two overlapping cycles has just been detected: A
\* and B are in both cycles
C19_Witness ==
  /\ CycleDetected
  /\ state.currentCycleScenario = "s1"
  /\ state.visibleCycles = {"c1", "c2"}

----------------------------------------------------------------------------
(* toggleCycle *)

\* the particles that the animation holds for the cycle cycleId
ParticlesOf(cycleId) ==
  {i \in 1..Len(state.waveSystem.particles) :
     state.waveSystem.particles[i].cycleId = cycleId}

\* the animation holds particles for exactly the visible cycles
ParticlesOfVisibleCycles ==
  /\ state.waveSystem.present
  /\ \A i \in 1..Len(Shown.cycles) :
       IF Shown.cycles[i].id \in state.visibleCycles
         THEN ParticlesOf(Shown.cycles[i].id) # {}
         ELSE ParticlesOf(Shown.cycles[i].id) = {}
  /\ \A i \in 1..Len(state.waveSystem.particles) :
       state.waveSystem.particles[i].cycleId \in state.visibleCycles

\* a step that toggles cycleId
ToggleStep(cycleId) ==
  /\ cycleId \in SeqToSet(dom.cyclesList)
  /\ lastOp' = Op("toggleCycle", "ok", {cycleId})
  /\ vars' # vars

\* colors and hidden flags of the graphs g and h agree
SameColorsAndHidden(g, h) ==
  /\ \A n \in Nodes : /\ g.node[n].color = h.node[n].color
                      /\ g.node[n].hidden = h.node[n].hidden
  /\ g.edges = h.edges
  /\ \A e \in g.edges : /\ g.edge[e].color = h.edge[e].color
                        /\ g.edge[e].hidden = h.edge[e].hidden

\* toggling cycleId flips it in visibleCycles and leaves the other members
ToggleFlips ==
  \A cycleId \in ScenarioIds \cup {"c1", "c2"} :
    ToggleStep(cycleId) =>
      /\ cycleId \in state'.visibleCycles <=> cycleId \notin state.visibleCycles
      /\ state'.visibleCycles \ {cycleId} = state.visibleCycles \ {cycleId}

\* toggling cycleId again right after a toggle gives back the visible
\* cycles, colors and hidden flags from before the first toggle
ToggleTwiceRestores ==
  \A cycleId \in ScenarioIds \cup {"c1", "c2"} :
    ToggleStep(cycleId) =>
      LET again == toggleCycleVisibility(
                     [graph |-> graph', state |-> state', dom |-> dom'], cycleId)
      IN /\ again.state.visibleCycles = state.visibleCycles
         /\ SameColorsAndHidden(again.graph, graph)

\* C21: toggleCycle(cycleId) flips cycleId in visibleCycles and changes no
\* other member; afterwards the node and edge attributes are the
\* classification of the new visibleCycles (C19_CycleNodeClassification,
\* C20_CycleEdgeVisibility) and the animation holds exactly the particles of
\* the new visible cycles; toggling the same cycle twice returns
\* visibleCycles and every color and hidden flag to what they were.
C21_ToggleCycle ==
  [][/\ ToggleFlips
     /\ (\E cycleId \in SeqToSet(dom.cyclesList) : ToggleStep(cycleId))
          => ParticlesOfVisibleCycles'
     /\ ToggleTwiceRestores]_vars

\* the three parts of C21 on their own
C21_Flips == [][ToggleFlips]_vars
C21_Particles ==
  [][(\E cycleId \in SeqToSet(dom.cyclesList) : ToggleStep(cycleId))
       => ParticlesOfVisibleCycles']_vars
C21_Twice == [][ToggleTwiceRestores]_vars

----------------------------------------------------------------------------
(* The animation loop: the cycle handlers of interactions.ts, the exported  *)
(* stopParticleAnimation and the frame callbacks that the host fires, with  *)
(* the system kept in state.waveSystem.  lastOp also remembers the frame    *)
(* callbacks that were scheduled when the animation was last stopped or     *)
(* torn down (stale) and the time at which the system was created (born).   *)

\* a frame callback can be requested this many times
MaxFrameId == 4
\* the time between two frame callbacks, in ms: a fraction of a second, or
\* the seconds of a page that was stalled
FrameDeltas == {500, 4000}

AnimOp(op, result, arg, stale, born) ==
  [op |-> op, result |-> result, arg |-> arg, stale |-> stale, born |-> born]

\* the host has an id left for the frame that the call would request
CanRequestFrame(w) == LoopGuard(w.state) => w.dom.window.nextId <= MaxFrameId

AnimInit ==
  /\ graph = CreateGraph(PoolEdges)
  /\ state = [InitState EXCEPT !.systemField = "waveSystem"]
  /\ dom = InitDom
  /\ pending = EmptyBag
  /\ lastOp = AnimOp("init", "ok", {}, {}, 0)

\* interactions.ts:552, up to the await of line 279
AnimDetectCycles ==
  \E lines \in CycleQueries :
    LET result == DetectCyclesCallResult(lines)
    IN /\ result = "suspended" => BagCardinality(pending) < MaxPending
       /\ Becomes(DetectCyclesTeardown(World))
       /\ pending' = IF result = "suspended"
                       THEN pending (+) SetToBag({QueriedPackages(lines)})
                       ELSE pending
       /\ lastOp' = AnimOp("detectCycles", result, {}, lastOp.stale, lastOp.born)

\* interactions.ts:279-318
AnimDetectResume ==
  \E queried \in BagToSet(pending) :
    LET result == DetectCyclesResumeResult(World, queried, Catalog)
        after == detectCyclesResume(World, queried, Catalog)
    IN /\ result = "applied" => after.dom.window.nextId <= MaxFrameId + 1
       /\ Becomes(after)
       /\ pending' = pending (-) SetToBag({queried})
       /\ lastOp' = AnimOp("detectCycles", result, {}, lastOp.stale,
                           IF result = "applied" THEN dom.window.now ELSE lastOp.born)

\* interactions.ts:304-306
AnimToggleCycle ==
  \E cycleId \in SeqToSet(dom.cyclesList) :
    LET after == toggleCycleVisibility(World, cycleId)
    IN /\ after.dom.window.nextId <= MaxFrameId + 1
       /\ Becomes(after)
       /\ lastOp' = AnimOp("toggleCycle", "ok", {cycleId}, lastOp.stale,
                           IF state.waveSystem.present THEN dom.window.now
                                                       ELSE lastOp.born)
       /\ UNCHANGED pending

\* interactions.ts:553-556: the teardown
AnimClearCycles ==
  LET after == clearCyclesMode(World)
  IN /\ Becomes(after)
     /\ lastOp' = AnimOp("clearCyclesMode", "ok", {}, after.dom.window.frames, lastOp.born)
     /\ UNCHANGED pending

\* particles.ts:198-203, the exported stopParticleAnimation called on its own
AnimStop ==
  LET after == stopParticleAnimation(World)
  IN /\ Becomes(after)
     /\ lastOp' = AnimOp("stopParticleAnimation",
                         IF after = World THEN "nothing" ELSE "cancelled",
                         {}, after.dom.window.frames, lastOp.born)
     /\ UNCHANGED pending

\* the host fires the frame callback id, delta ms after the event before it
Frame ==
  \E id \in dom.window.frames : \E delta \in FrameDeltas :
    LET fired == [World EXCEPT !.dom.window.frames = @ \ {id},
                               !.dom.window.now = @ + delta]
    IN /\ CanRequestFrame(fired)
       /\ Becomes(animate(fired))
       /\ lastOp' = AnimOp("frame", IF LoopGuard(state) THEN "drawn" ELSE "returned",
                           {id}, lastOp.stale \ {id}, lastOp.born)
       /\ UNCHANGED pending

AnimNext ==
  \/ AnimDetectCycles
  \/ AnimDetectResume
  \/ AnimToggleCycle
  \/ AnimClearCycles
  \/ AnimStop
  \/ Frame

AnimSpec == AnimInit /\ [][AnimNext]_vars

----------------------------------------------------------------------------
(* The animation loop and the particles *)

\* the animation system of the page
System == SystemOf(state)

\* a step that ends the animation: clearCyclesMode, or stopParticleAnimation
TeardownStep ==
  /\ lastOp'.op \in {"clearCyclesMode", "stopParticleAnimation"}
  /\ vars' # vars

\* the host fires a frame callback that was scheduled before the animation
\* was last stopped or torn down
StaleFrameStep ==
  /\ lastOp'.op = "frame"
  /\ lastOp'.arg \subseteq lastOp.stale
  /\ vars' # vars

C22_TeardownClearsHandle ==
  [][TeardownStep =>
       /\ lastOp'.op = "clearCyclesMode" => ~System'.present
       /\ System'.animationId = 0
       /\ System.animationId \notin dom'.window.frames]_vars

\* the system has just been created: by detectCycles or by toggleCycle
JustInitialized ==
  /\ System.present
  /\ \/ lastOp.op = "detectCycles" /\ lastOp.result = "applied"
     \/ lastOp.op = "toggleCycle"

\* the particles of the cycle cycleId that are on its edge number edgeIndex
ParticlesOn(cycleId, edgeIndex) ==
  {k \in 1..Len(System.particles) :
     /\ System.particles[k].cycleId = cycleId
     /\ System.particles[k].edgeIndex = edgeIndex}

\* count values evenly staggered across [0, 1)
Staggered(count) == {(j * ProgressOne) \div count : j \in 0..(count - 1)}

\* the edges of the visible cycles of the scenario on display
VisibleCycleEdges ==
  {<<i, e>> \in (1..Len(Shown.cycles)) \X (0..Len(NodeSeq)) :
     /\ Shown.cycles[i].id \in state.visibleCycles
     /\ e < Len(Shown.cycles[i].edges)}

C23_ParticlesPerCycle ==
  JustInitialized =>
    /\ \A i \in 1..Len(Shown.cycles) :
         LET on == ParticlesOn(Shown.cycles[i].id, 0)
         IN IF Shown.cycles[i].id \in state.visibleCycles
              THEN /\ Cardinality(on) = PARTICLES_PER_CYCLE
                   /\ {System.particles[k].progress : k \in on}
                        = Staggered(PARTICLES_PER_CYCLE)
              ELSE on = {}
    /\ Len(System.particles) = PARTICLES_PER_CYCLE * Cardinality(state.visibleCycles)

\* the particles that the cycle of particle k had before it, in the system
RankInCycle(k) ==
  Cardinality({j \in 1..(k - 1) :
                 System.particles[j].cycleId = System.particles[k].cycleId})

\* the progress that particle k was created with (particles.ts:64)
InitialProgress(k) == (RankInCycle(k) * ProgressOne) \div PARTICLES_PER_CYCLE

\* the time that the frames have measured since the system was created
Elapsed == System.lastFrame - lastOp.born

\* the host has fired a frame callback and the callback has drawn
FrameDrawn == lastOp.op = "frame" /\ lastOp.result = "drawn"

\* C24: every frame advances every particle by speed x (the time since the
\* frame before it), so as long as a particle has not wrapped, its progress
\* is its initial progress + speed x the time that the frames have covered
\* (n x d after n frames of d each), and lastFrame is the time of the latest
\* frame.
C24_ProgressFollowsTime ==
  /\ FrameDrawn => System.lastFrame = dom.window.now
  /\ System.present =>
       \A k \in 1..Len(System.particles) :
         InitialProgress(k) + PARTICLE_SPEED * Elapsed < ProgressOne =>
           /\ System.particles[k].progress
                = InitialProgress(k) + PARTICLE_SPEED * Elapsed
           /\ System.particles[k].edgeIndex = 0

\* two frames of half a second each have advanced a particle that started at
\* 1/3 without wrapping it
C24_Witness ==
  /\ FrameDrawn
  /\ Elapsed = 1000
  /\ \E k \in 1..Len(System.particles) :
       /\ InitialProgress(k) = ProgressOne \div 3
       /\ System.particles[k].progress = ProgressOne \div 3 + PARTICLE_SPEED * 1000

\* the host fires a frame callback and the callback updates and draws
FrameDrawnStep ==
  /\ lastOp'.op = "frame"
  /\ lastOp'.result = "drawn"
  /\ vars' # vars

C25_ProgressWithinEdge ==
  System.present =>
    \A k \in 1..Len(System.particles) :
      /\ System.particles[k].progress \in 0..(ProgressOne - 1)
      /\ System.particles[k].edgeIndex
           \in 0..(Len(Shown.cycles[FindCycle(Shown, System.particles[k].cycleId)].edges) - 1)

\* a step that calls the exported stopParticleAnimation
StopStep ==
  /\ lastOp'.op = "stopParticleAnimation"
  /\ vars' # vars

\* C26: stopping the animation is idempotent. A stop clears the handle,
\* takes the frame that the handle named off the host's schedule and changes
\* nothing else; a stop right after a stop, or with no frame scheduled, or
\* with no system, changes nothing at all.
C26_StopIsIdempotent ==
  [][StopStep =>
       /\ System'.animationId = 0
       /\ System.animationId \notin dom'.window.frames
       /\ graph' = graph
       /\ state' = IF System.present
                     THEN [state EXCEPT ![state.systemField].animationId = 0]
                     ELSE state
       /\ dom' = [dom EXCEPT !.window.frames = @ \ {System.animationId}]
       /\ (lastOp.op = "stopParticleAnimation" \/ ~System.present
             \/ System.animationId = 0)
            => /\ state' = state
               /\ dom' = dom]_vars

\* stop has been called on a system whose frame had already been cancelled
C26_Witness ==
  /\ lastOp.op = "stopParticleAnimation"
  /\ lastOp.result = "nothing"
  /\ System.present
  /\ System.animationId = 0

----------------------------------------------------------------------------
(* The layout: main.ts:33-72 after createGraph has returned, with the loop  *)
(* of runForceLayout (graph.ts:115-190).  The host runs the loop from one   *)
(* await to the next without interruption; `pending` holds the suspended    *)
(* call with its loop variable.  What an iteration computes is floating     *)
(* point arithmetic on the coordinates: the model lets it leave any of the  *)
(* arrangements.  lastOp counts the iterations that have run.               *)

LayoutIterations == 100
YieldEvery == 10

\* graph.ts:178-183: every node gets new coordinates, here those of the
\* k-th arrangement
Arrange(g, k) ==
  [g EXCEPT !.node = [n \in DOMAIN g.node |->
                        [g.node[n] EXCEPT !.x = Place(k, n).x, !.y = Place(k, n).y]]]

\* the loop variable that a resumed call goes on with, graph.ts:128 (iter++)
ResumeAt_SameIteration(iter) == iter

ResumeAt(iter) == iter + 1

\* graph.ts:128-189 from the head of the loop with the loop variable at iter:
\* the iteration at whose await (186-188) the call suspends, or
\* LayoutIterations when the loop ends first
RECURSIVE RunUntilYield(_)
RunUntilYield(iter) ==
  IF iter >= LayoutIterations THEN LayoutIterations
  ELSE IF iter % YieldEvery = 0 THEN iter
  ELSE RunUntilYield(iter + 1)

\* the iterations that run from the loop head at `from` up to there
IterationsRun(from, upto) ==
  IF upto >= LayoutIterations THEN LayoutIterations - from ELSE upto - from + 1

SuspendedLayout(iter) == [fn |-> "runForceLayout", iter |-> iter]

\* initGraph that goes on to the renderer and the handlers at the first
\* await of the layout
InitGraphGoesOn_AtAnyYield(upto) == TRUE

\* main.ts:37-68: initGraph awaits runForceLayout, so new Sigma (42) and
\* setupInteractions (68) run once the loop has ended, not at its awaits
InitGraphGoesOn(upto) == upto >= LayoutIterations

LayoutOp(result, iter, ran) ==
  Op("runForceLayout", result, [iter |-> iter, ran |-> ran])

\* main.ts:33: createGraph has returned the graph, with any first coordinates
LayoutStart(inputs) ==
  /\ \E es \in inputs : \E k \in 1..NumPlacements :
       graph = Arrange(CreateGraph(es), k)
  /\ state = [BootState EXCEPT !.graph = TRUE, !.allPackages = NodeSeq]
  /\ dom = BootDom
  /\ pending = EmptyBag
  /\ lastOp = Op("createGraph", "ok", [iter |-> 0, ran |-> 0])

LayoutInit == LayoutStart(GraphInputs)

\* main.ts:37 and graph.ts:115-188: the call runs to its first await
RunForceLayout ==
  /\ lastOp.op = "createGraph"
  /\ \E k \in 1..NumPlacements : graph' = Arrange(graph, k)
  /\ pending' = SetToBag({SuspendedLayout(RunUntilYield(0))})
  /\ lastOp' = LayoutOp("yielded", RunUntilYield(0), IterationsRun(0, RunUntilYield(0)))
  /\ UNCHANGED <<state, dom>>

\* graph.ts:186-189: the timer of the await fires and the loop goes on to its
\* next await, or to its end; then initGraph goes on (main.ts:39-72) with
\* the renderer and the handlers
LayoutResume ==
  /\ ~dom.handlers
  /\ lastOp.op = "runForceLayout"
  /\ \E call \in BagToSet(pending) :
       LET from == ResumeAt(call.iter)
           upto == RunUntilYield(from)
       IN /\ lastOp.arg.ran <= LayoutIterations
          /\ IF from < LayoutIterations
               THEN \E k \in 1..NumPlacements : graph' = Arrange(graph, k)
               ELSE graph' = graph
          /\ IF upto < LayoutIterations
               THEN /\ pending' = SetToBag({SuspendedLayout(upto)})
                    /\ lastOp' = LayoutOp("yielded", upto,
                                          lastOp.arg.ran + IterationsRun(from, upto))
               ELSE /\ pending' = EmptyBag
                    /\ lastOp' = LayoutOp("done", upto,
                                          lastOp.arg.ran + IterationsRun(from, upto))
          /\ state' = [state EXCEPT !.sigma = InitGraphGoesOn(upto)]
          /\ dom' = [dom EXCEPT !.handlers = InitGraphGoesOn(upto)]

LayoutNext ==
  \/ RunForceLayout
  \/ LayoutResume

\* the host runs every timer that is due: setTimeout(r, 0) of graph.ts:187
LayoutSpec == LayoutInit /\ [][LayoutNext]_vars /\ WF_vars(LayoutNext)

\* C27: the layout terminates for every graph: resumed after each of its
\* awaits, runForceLayout completes, whatever the coordinates do, after
\* exactly LayoutIterations = 100 iterations.
C27_LayoutTerminates ==
  <>(/\ lastOp.op = "runForceLayout"
     /\ lastOp.result = "done"
     /\ lastOp.arg.ran = LayoutIterations
     /\ pending = EmptyBag)

\* the layout of the densest graph has completed and the page is ready
C27_Witness ==
  /\ lastOp.op = "runForceLayout"
  /\ lastOp.result = "done"
  /\ lastOp.arg.ran = 100
  /\ graph.edges = PoolEdges
  /\ dom.handlers

----------------------------------------------------------------------------
(* The page from the layout on: the layout runs, then the handlers that     *)
(* setupInteractions installs (main.ts:68) take the clicks                  *)

\* the graph inputs of the page: no edge at all, and every edge of the pool
PageInputs == {{}, PoolEdges}

PageInit == LayoutStart(PageInputs)

\* main.ts:68: the handlers exist once setupInteractions has run
Handlers == dom.handlers /\ Next

PageNext ==
  \/ LayoutNext
  \/ Handlers

PageSpec == PageInit /\ [][PageNext]_vars

\* a step of the layout
LayoutStep ==
  /\ lastOp'.op = "runForceLayout"
  /\ vars' # vars

\* everything in the graph but the coordinates stays as it is
OnlyPositionsChange ==
  /\ graph'.edges = graph.edges
  /\ graph'.edge = graph.edge
  /\ DOMAIN graph'.node = DOMAIN graph.node
  /\ \A n \in DOMAIN graph.node :
       graph'.node[n] = [graph.node[n] EXCEPT !.x = graph'.node[n].x,
                                               !.y = graph'.node[n].y]

\* no node moves
PositionsStay ==
  \A n \in DOMAIN graph.node :
    /\ graph'.node[n].x = graph.node[n].x
    /\ graph'.node[n].y = graph.node[n].y

\* C28: the coordinates are written by the layout only. No handler
\* (selectNode, clearSelection, applyFilter, clearFilter, detectCycles,
\* toggleCycle, clearCycles, zoom reset) changes the x or y of a node, and a
\* layout step changes x and y and nothing else: not color, size, hidden,
\* originalColor or originalSize of a node, nor any edge.
C28_PositionsBelongToLayout ==
  [][IF LayoutStep THEN OnlyPositionsChange ELSE PositionsStay]_vars

\* the layout has moved the nodes away from where createGraph put them, and
\* a filter has since hidden a node
C28_Witness ==
  /\ dom.handlers
  /\ state.isSubgraphMode
  /\ \E n \in Nodes : graph.node[n].hidden
  /\ \E n \in Nodes : graph.node[n].x # Place(1, n).x

\* the frame callback leaves the graph as it is (checked under AnimSpec)
FramesLeaveGraph == [][lastOp'.op = "frame" => graph' = graph]_vars

\* C29: originalSize and originalColor of every node and originalColor of
\* every edge are write-once: no step of the layout and no handler
\* (selection, filter, cycles, clear) changes what createGraph has set.
C29_OriginalsWriteOnce ==
  [][/\ graph'.edges = graph.edges
     /\ DOMAIN graph'.node = DOMAIN graph.node
     /\ \A n \in DOMAIN graph.node :
          /\ graph'.node[n].originalSize = graph.node[n].originalSize
          /\ graph'.node[n].originalColor = graph.node[n].originalColor
     /\ \A e \in graph.edges :
          graph'.edge[e].originalColor = graph.edge[e].originalColor]_vars

\* a node is selected while the cycles are shown: colors and sizes are far
\* from the originals
C29_Witness ==
  /\ state.isCyclesMode
  /\ state.selectedNode # Null
  /\ \E n \in Nodes : /\ graph.node[n].size # graph.node[n].originalSize
                      /\ graph.node[n].color # graph.node[n].originalColor
  /\ \E e \in graph.edges : graph.edge[e].color # graph.edge[e].originalColor

\* the color, size and hidden flag of every node, the color and hidden flag
\* of every edge
AppearanceStays ==
  /\ graph'.edges = graph.edges
  /\ DOMAIN graph'.node = DOMAIN graph.node
  /\ \A n \in DOMAIN graph.node :
       /\ graph'.node[n].color = graph.node[n].color
       /\ graph'.node[n].size = graph.node[n].size
       /\ graph'.node[n].hidden = graph.node[n].hidden
  /\ \A e \in graph.edges :
       /\ graph'.edge[e].color = graph.edge[e].color
       /\ graph'.edge[e].hidden = graph.edge[e].hidden

SubgraphOps == {"applyFilter", "clearSubgraphMode"}
CyclesOps == {"detectCycles", "clearCyclesMode", "toggleCycle"}

\* the subgraph filter stays on across a step of another handler
ForeignStepInSubgraphMode ==
  /\ state.isSubgraphMode /\ state'.isSubgraphMode
  /\ lastOp'.op \notin SubgraphOps

\* the cycle highlight stays on across a step of another handler
ForeignStepInCyclesMode ==
  /\ state.isCyclesMode /\ state'.isCyclesMode
  /\ lastOp'.op \notin CyclesOps

\* C30, filter half: while isSubgraphMode stays set, a handler other than
\* the filter's apply and clear changes no color, size or hidden flag.
C30_SubgraphOwnsAttributes ==
  [][ForeignStepInSubgraphMode => AppearanceStays]_vars

\* C30, cycles half: while isCyclesMode stays set, a handler other than
\* detect, toggle and clear of the cycles changes no color, size or hidden
\* flag.
C30_CyclesOwnAttributes ==
  [][ForeignStepInCyclesMode => AppearanceStays]_vars

\* C30: while SubgraphFiltered or CycleHighlighted is active, that mode's
\* own apply, clear and toggle are the sole mutators of the color, size and
\* hidden flag of nodes and edges: selectNode, clearSelection, the other
\* mode's clear and zoom-reset change none of them while the mode flag
\* stays set.
C30_ModeOwnsAttributes ==
  [][(ForeignStepInSubgraphMode \/ ForeignStepInCyclesMode)
       => AppearanceStays]_vars

----------------------------------------------------------------------------
(* C31: what a valid scenario promises about the graph *)

\* the scenario that cycle mode shows
ShownScenario == ScenarioById(state.currentCycleScenario)

\* the pairs (from, to) that the cycles of a scenario list
ScenarioEdgePairs(scenario) ==
  UNION {{<<scenario.cycles[i].edges[j].from, scenario.cycles[i].edges[j].to>> :
            j \in 1..Len(scenario.cycles[i].edges)} :
         i \in 1..Len(scenario.cycles)}

\* a detectCycles call has just shown a scenario that validateScenario
\* reported valid (interactions.ts:289-301)
ValidScenarioShown ==
  /\ lastOp.op = "detectCycles"
  /\ lastOp.result = "applied"
  /\ validateScenario(ShownScenario, SeqToSet(state.allPackages)).valid

\* the nodes half of the validation: every node that a valid scenario names
\* is a node of the graph
C31_ValidScenarioNodesInGraph ==
  ValidScenarioShown =>
    \A id \in SeqToSet(ShownScenario.queriedPackages)
              \cup SeqToSet(ShownScenario.intermediateNodes)
              \cup CycleNodes(ShownScenario) : hasNode(graph, id)

\* C31: whenever validateScenario reports valid, every edge (from, to) that
\* a cycle of the scenario lists is an edge of the live graph.
C31_ValidScenarioEdgesInGraph ==
  ValidScenarioShown => ScenarioEdgePairs(ShownScenario) \subseteq graph.edges

----------------------------------------------------------------------------
(* C32: the loop that a successful detectCycles starts *)

\* a detectCycles call has just shown a scenario
DetectApplied == lastOp.op = "detectCycles" /\ lastOp.result = "applied"

\* C32: after a successful detectCycles the animation loop is running:
\* the wave system that detectCycles stored holds the handle of a frame
\* callback that the host has pending.
C32_LoopRunsAfterDetect ==
  DetectApplied =>
    /\ state.waveSystem.present
    /\ state.waveSystem.animationId # 0
    /\ state.waveSystem.animationId \in dom.window.frames

\* what detectCycles stores on its own, whether or not the loop finds it
C32_SystemStoredAfterDetect ==
  DetectApplied =>
    /\ state.waveSystem.present
    /\ state.animationCanvas # Null
    /\ state.isCyclesMode

----------------------------------------------------------------------------
(* C33: one animation loop at a time *)

\* the frame callbacks that the host has pending are at most the one whose
\* id the wave system holds
OneLoop(w) ==
  /\ Cardinality(w.dom.window.frames) <= 1
  /\ w.dom.window.frames \subseteq {w.state.waveSystem.animationId}

C33_ToggleKeepsOneLoop ==
  [][(lastOp'.op = "toggleCycle" /\ OneLoop(World))
       => OneLoop([graph |-> graph', state |-> state', dom |-> dom'])]_vars

----------------------------------------------------------------------------
(* C34: nothing interleaves with the layout *)

\* runForceLayout has been called or is suspended at an await
LayoutInProgress ==
  \/ lastOp.op = "createGraph"
  \/ lastOp.op = "runForceLayout" /\ lastOp.result = "yielded"

\* C34: handlers and the animation callback cannot interleave with the
\* layout. While runForceLayout is under way, its awaits included, no
\* handler is installed, the renderer does not exist and no frame callback
\* is pending, so the only step that can follow is the layout's own: what a
\* resumed layout reads is what it wrote before the await.
C34_NothingInterleavesWithLayout ==
  [][LayoutInProgress =>
       /\ ~dom.handlers
       /\ ~state.sigma
       /\ dom.window.frames = {}
       /\ LayoutStep
       /\ OnlyPositionsChange]_vars

\* the layout is suspended at an await in its middle, on a graph with edges
C34_Witness ==
  /\ lastOp.op = "runForceLayout"
  /\ lastOp.result = "yielded"
  /\ lastOp.arg.iter = 50
  /\ pending # EmptyBag
  /\ graph.edges = PoolEdges

----------------------------------------------------------------------------
(* The repulsion sample of runForceLayout, graph.ts:142-145. The nodes are  *)
(* counted, not named: lastOp.arg holds the number of nodes of the graph,   *)
(* how many of them the filter has been called for and how many it kept.    *)
(* Math.random() is a value in [0, 1) in units of 1/RandomOne.              *)

\* the graphs of the sample have up to this many nodes
MaxNodes == 52
RandomOne == 1000
\* what Math.random() can return: its least value, a middle one, and one
\* next to 1
RandomDraws == {0, 500, RandomOne - 1}

\* graph.ts:143, the 50 of Math.min(50, nodes.length)
SampleTarget == 50

NodeCounts == {3, SampleTarget, SampleTarget + 1, MaxNodes}

\* graph.ts:143
sampleSize(n) == IF SampleTarget < n THEN SampleTarget ELSE n

\* graph.ts:144, nodes.length <= sampleSize
TakesAllNodes(n) == n <= sampleSize(n)

\* graph.ts:145, the test of the filter: Math.random() < sampleSize / nodes.length
Sampled(r, n) == r * n < sampleSize(n) * RandomOne

SampleArg(n, called, kept) == [n |-> n, called |-> called, kept |-> kept]

SampleInit ==
  /\ graph = CreateGraph({})
  /\ state = InitState
  /\ dom = InitDom
  /\ pending = EmptyBag
  /\ \E n \in NodeCounts : lastOp = Op("sampleInput", "ok", SampleArg(n, 0, 0))

\* graph.ts:143-145 up to the first call of the filter's callback
ChooseSample ==
  /\ lastOp.op = "sampleInput"
  /\ lastOp' = IF TakesAllNodes(lastOp.arg.n)
                 THEN Op("sample", "allNodes",
                         SampleArg(lastOp.arg.n, 0, lastOp.arg.n))
                 ELSE Op("sample", "filtering", SampleArg(lastOp.arg.n, 0, 0))
  /\ UNCHANGED <<graph, state, dom, pending>>

\* graph.ts:145, the callback of nodes.filter for the next node
FilterNode ==
  /\ lastOp.op = "sample"
  /\ lastOp.result = "filtering"
  /\ \E r \in RandomDraws :
       LET called == lastOp.arg.called + 1
           kept == lastOp.arg.kept + (IF Sampled(r, lastOp.arg.n) THEN 1 ELSE 0)
       IN lastOp' = Op("sample",
                       IF called < lastOp.arg.n THEN "filtering" ELSE "filtered",
                       SampleArg(lastOp.arg.n, called, kept))
  /\ UNCHANGED <<graph, state, dom, pending>>

SampleNext ==
  \/ ChooseSample
  \/ FilterNode

SampleSpec == SampleInit /\ [][SampleNext]_vars

\* the sample of a node is complete
SampleTaken ==
  /\ lastOp.op = "sample"
  /\ lastOp.result \in {"allNodes", "filtered"}

\* the second half of C35: for a graph of at most 50 nodes the sample is
\* the full node set
C35_AllNodesWhenSmall ==
  (SampleTaken /\ lastOp.arg.n <= SampleTarget) =>
    /\ lastOp.result = "allNodes"
    /\ lastOp.arg.kept = lastOp.arg.n

\* C35: the set of nodes that the repulsion of a node is computed against
\* has at most 50 members, whatever Math.random() returns and however many
\* nodes the graph has, and it is the full node set when the graph has at
\* most 50 nodes.
C35_SampleCapped ==
  SampleTaken =>
    /\ lastOp.arg.kept <= SampleTarget
    /\ lastOp.arg.n <= SampleTarget => lastOp.arg.kept = lastOp.arg.n

----------------------------------------------------------------------------
(* C36: nothing stays hidden outside the two modes *)

\* C36: whenever neither isSubgraphMode nor isCyclesMode is set, no node
\* and no edge is hidden, after any sequence of handler calls.
C36_NothingHiddenOutsideModes ==
  (~state.isSubgraphMode /\ ~state.isCyclesMode) =>
    /\ \A n \in DOMAIN graph.node : ~graph.node[n].hidden
    /\ \A e \in graph.edges : ~graph.edge[e].hidden

\* a handler has just left the last mode that was on, on a graph with
\* edges and with the selection made earlier still in place
C36_Witness ==
  /\ lastOp.op \in {"clearSubgraphMode", "clearCyclesMode", "zoomReset", "applyFilter"}
  /\ lastOp.result # "applied"
  /\ ~state.isSubgraphMode
  /\ ~state.isCyclesMode
  /\ state.selectedNode # Null
  /\ Cardinality(graph.edges) >= 2

----------------------------------------------------------------------------
(* C37: what the filter shows while isSubgraphMode is set *)

\* the nodes of highlightedNodes are shown and no other node, and a shown
\* edge joins two of them
FilterShowsHighlighted ==
  /\ state.highlightedNodes # {}
  /\ \A n \in DOMAIN graph.node :
       graph.node[n].hidden <=> n \notin state.highlightedNodes
  /\ \A e \in graph.edges :
       ~graph.edge[e].hidden =>
          (e[1] \in state.highlightedNodes /\ e[2] \in state.highlightedNodes)

\* C37: whenever isSubgraphMode is set, highlightedNodes is non-empty, a
\* node is hidden if and only if it is not in highlightedNodes, and every
\* visible edge has both endpoints in highlightedNodes.
C37_FilterShowsHighlighted == state.isSubgraphMode => FilterShowsHighlighted

\* the same right after the filter was applied
C37_AppliedFilterShowsHighlighted ==
  (lastOp.op = "applyFilter" /\ lastOp.result = "applied")
     => (state.isSubgraphMode /\ FilterShowsHighlighted)

----------------------------------------------------------------------------
(* updateParticles on one particle, particles.ts:88-101, for any particle   *)
(* and any time since the last frame, also for a particle whose cycle has   *)
(* no edges or has left the scenario                                        *)

\* a scenario with a cycle of two edges, one of three and one without edges
UpdateScenario ==
  [id |-> "s5", queriedPackages |-> <<"A">>,
   cycles |-> << Catalog[1].cycles[1], Catalog[1].cycles[2],
                 [id |-> "c4", nodes |-> <<"A">>, edges |-> << >>,
                  color |-> "#f59e0b"] >>,
   intermediateNodes |-> << >>]

\* the cycle ids of the particles: the three cycles, and one that is gone
UpdateCycleIds == {"c1", "c2", "c4", "c9"}

\* the edges of the cycle of a particle, none when the cycle is gone
EdgesOfCycle(scenario, cycleId) ==
  IF FindCycle(scenario, cycleId) = 0 THEN << >>
  ELSE scenario.cycles[FindCycle(scenario, cycleId)].edges

\* where on its edge a particle is: at the start, at the thirds of the
\* stagger, and next to the end
UpdateProgresses == {0, ProgressOne \div 3, (2 * ProgressOne) \div 3, ProgressOne - 1}

\* the particles that a system can hold: on one of the edges of a cycle
\* (on edge 0..2 of a cycle that has none), at a progress in [0, 1)
UpdateParticles ==
  {pt \in [cycleId : UpdateCycleIds, edgeIndex : 0..2,
           progress : UpdateProgresses, color : {"#ef4444"}] :
     \/ Len(EdgesOfCycle(UpdateScenario, pt.cycleId)) = 0
     \/ pt.edgeIndex < Len(EdgesOfCycle(UpdateScenario, pt.cycleId))}

\* the ms since the last frame: none, a frame of 60 Hz, half a second, and
\* the seconds of a stalled page
UpdateDeltas == {0, 16, 500, 4000, 10000}

UpdateInit ==
  /\ graph = CreateGraph({})
  /\ state = InitState
  /\ dom = InitDom
  /\ pending = EmptyBag
  /\ \E pt \in UpdateParticles : \E delta \in UpdateDeltas :
       lastOp = Op("updateInput", "ok", [particle |-> pt, delta |-> delta])

\* particles.ts:88-101
UpdateOneParticle ==
  /\ lastOp.op = "updateInput"
  /\ lastOp' = Op("updateParticles",
                  updateParticle(lastOp.arg.particle, UpdateScenario, lastOp.arg.delta),
                  lastOp.arg)
  /\ UNCHANGED <<graph, state, dom, pending>>

UpdateNext == UpdateOneParticle

UpdateSpec == UpdateInit /\ [][UpdateNext]_vars

\* the whole edges that the progress of a particle passes in delta ms
EdgesPassed(particle, delta) ==
  CHOOSE k \in 0..(1 + (PARTICLE_SPEED * delta) \div ProgressOne) :
    /\ k * ProgressOne <= particle.progress + PARTICLE_SPEED * delta
    /\ particle.progress + PARTICLE_SPEED * delta < (k + 1) * ProgressOne

\* the index that is k edges further round a cycle of len edges
RECURSIVE EdgeAfter(_, _, _)
EdgeAfter(index, k, len) ==
  IF k = 0 THEN index
  ELSE EdgeAfter(IF index + 1 = len THEN 0 ELSE index + 1, k - 1, len)

\* C38: when the progress of a particle reaches 1 it wraps to the next edge
\* of its cycle. After an update a particle of a cycle with edges has its
\* progress in [0, 1) and its edge index among the edges of the cycle, one
\* edge further round the cycle for every unit of progress; a particle
\* whose cycle has no edges or is not in the scenario is left unchanged.
C38_ParticleWrapsToNextEdge ==
  lastOp.op = "updateParticles" =>
    LET before == lastOp.arg.particle
        after == lastOp.result
        edges == EdgesOfCycle(UpdateScenario, before.cycleId)
        passed == EdgesPassed(before, lastOp.arg.delta)
    IN IF Len(edges) = 0
         THEN after = before
         ELSE /\ after.progress \in 0..(ProgressOne - 1)
              /\ after.edgeIndex \in 0..(Len(edges) - 1)
              /\ after.edgeIndex = EdgeAfter(before.edgeIndex, passed, Len(edges))
              /\ after.progress + passed * ProgressOne
                   = before.progress + PARTICLE_SPEED * lastOp.arg.delta
              /\ after.cycleId = before.cycleId
              /\ after.color = before.color

\* a particle on the last edge of the cycle of two edges has passed three
\* edges in one update and is on the first edge
C38_Witness ==
  /\ lastOp.op = "updateParticles"
  /\ lastOp.arg.particle.cycleId = "c1"
  /\ lastOp.arg.particle.edgeIndex = 1
  /\ EdgesPassed(lastOp.arg.particle, lastOp.arg.delta) = 3
  /\ lastOp.result.edgeIndex = 0

\* a particle of the cycle without edges, and one of a cycle that is gone,
\* have been through an update
C38_WitnessLeftAlone ==
  /\ lastOp.op = "updateParticles"
  /\ lastOp.arg.particle.cycleId \in {"c4", "c9"}
  /\ lastOp.arg.delta > 0

----------------------------------------------------------------------------
(* C39: the priority of the stylings of selectNode *)

\* the four stylings of interactions.ts:28-42: selected, dependency,
\* dependent, other
SelectStylings ==
  << [color |-> nodeHighlight, tenths |-> 15],
     [color |-> nodePath, tenths |-> 12],
     [color |-> nodeHighlight, tenths |-> 11],
     [color |-> nodeDimmed, tenths |-> 10] >>

\* the stylings that node n has
StylingsOf(n) ==
  {k \in 1..Len(SelectStylings) :
     NodeStyled(n, SelectStylings[k].color, SelectStylings[k].tenths)}

\* C39: selectNode applies its stylings in a fixed priority. A node that is
\* both a dependency and a dependent of the selected node gets the styling
\* of a dependency (path color, 1.2 x originalSize), a selected node with a
\* self-loop keeps the styling of the selected node (highlight, 1.5 x), and
\* every node has exactly one of the four stylings.
C39_StylingPriority ==
  NodeSelected =>
    LET id == state.selectedNode
    IN /\ \A n \in (DepsOf(id) \cap RdepsOf(id)) \ {id} : StylingsOf(n) = {2}
       /\ id \in DepsOf(id) \cup RdepsOf(id) => StylingsOf(id) = {1}
       /\ \A n \in Nodes : Cardinality(StylingsOf(n)) = 1

\* the selected node has a self-loop and a dependency that depends on it
C39_Witness ==
  /\ NodeSelected
  /\ state.selectedNode \in DepsOf(state.selectedNode)
  /\ (DepsOf(state.selectedNode) \cap RdepsOf(state.selectedNode))
        \ {state.selectedNode} # {}

====
